---- MODULE Spec2Model ----
(***************************************************************************)
(* A model of the energy-analytics data pipeline: EnergyDataFetcher        *)
(* (App/src/fetch.py), its CSV cache, and the helpers of App/src/utils.py  *)
(* and App/src/config.py it relies on.                                     *)
(*                                                                         *)
(* Conventions.                                                            *)
(*  - A Python str is a sequence of one-character strings, so that         *)
(*    concatenation, upper() and parsing are computed, not assumed.        *)
(*  - A DataFrame is [cols |-> <<column names>>, rows |-> <<records>>];    *)
(*    a cell is a tagged record: [t |-> "ts", v |-> minute],               *)
(*    [t |-> "num", v |-> integer], [t |-> "str", v |-> text] or NaN.      *)
(*  - An Optional[DataFrame] is None or Some(df); a call that raises       *)
(*    yields Raise(kind).                                                  *)
(*  - Time is counted in minutes.                                          *)
(***************************************************************************)
EXTENDS Integers, Sequences, FiniteSets, TLC

VARIABLES
    ctimeIsCreation,  \* platform: TRUE when os.path.getctime is the creation time
    now,              \* datetime.now(), in minutes
    files,            \* the cache directory: file name -> [content, ctime]
    pc,               \* position of the fetch_data call: "idle", "loop", "done"
    metric,           \* fetch_data's metric argument
    use_cache,        \* fetch_data's use_cache argument
    idx,              \* index into Config.DATASETS of the next loop iteration
    results,          \* fetch_data's results dict: dataset_key -> DataFrame
    raised,           \* the exception that escaped fetch_data, or NoException
    iterations,       \* loop iterations of fetch_data made so far
    apiCalls,         \* per dataset index: get_network_data calls in this pass
    cacheReads,       \* per dataset index: _load_from_cache calls in this pass
    lastStep,         \* what the last loop iteration met
    met,              \* per dataset index: how this pass obtained it, or did not
    lastSaved,        \* per identity key: the frame and time of the last save that wrote
    cacheOp,          \* the last direct cache call, its arguments and what it returned
    nameArgs,         \* identity triples given to _get_cache_filename, and the names
    call              \* a call of a function on its own: its arguments and its result

\* the state of the fetch_data call
fetchVars == <<pc, metric, use_cache, idx, results, raised, iterations, apiCalls,
               cacheReads, lastStep, met>>

\* the state of the calls made on their own
sideVars == <<nameArgs, call>>

vars == <<ctimeIsCreation, now, files, fetchVars, lastSaved, cacheOp, sideVars>>

----------------------------------------------------------------------------
(* Bounds of the model *)

MaxTime == 2        \* the clock stops advancing here
MaxIterations == 3  \* loop iterations of fetch_data per behaviour
MaxCacheOps == 3    \* direct cache calls per behaviour
FirstYear == 2023   \* the first year reference instants are drawn from
MaxYears == 2       \* the number of years they are drawn from
MaxMonthsBack == 24 \* the largest months_back drawn
MaxPoints == 3      \* the most points a response drawn for the normalizer holds
MaxPasses == 3      \* fetch_data passes made one after another per behaviour
MaxRows == 3        \* the most rows a table drawn for utils.py holds

----------------------------------------------------------------------------
(* Text *)

LowerCase == <<"a","b","c","d","e","f","g","h","i","j","k","l","m",
               "n","o","p","q","r","s","t","u","v","w","x","y","z">>
UpperCase == <<"A","B","C","D","E","F","G","H","I","J","K","L","M",
               "N","O","P","Q","R","S","T","U","V","W","X","Y","Z">>

UpperChar(c) ==
    IF \E i \in 1..Len(LowerCase) : LowerCase[i] = c
    THEN UpperCase[CHOOSE i \in 1..Len(LowerCase) : LowerCase[i] = c]
    ELSE c

\* str.upper()
Upper(s) == [i \in 1..Len(s) |-> UpperChar(s[i])]

Digits == <<"0","1","2","3","4","5","6","7","8","9">>
IsDigit(c) == \E d \in 1..10 : Digits[d] = c
DigitVal(c) == (CHOOSE d \in 1..10 : Digits[d] = c) - 1
AllDigits(s) == Len(s) > 0 /\ \A i \in 1..Len(s) : IsDigit(s[i])

RECURSIVE FormatNat(_)
FormatNat(n) ==
    IF n < 10 THEN <<Digits[n + 1]>>
    ELSE FormatNat(n \div 10) \o <<Digits[(n % 10) + 1]>>

RECURSIVE ParseNat(_)
ParseNat(s) ==
    IF Len(s) = 0 THEN 0
    ELSE ParseNat(SubSeq(s, 1, Len(s) - 1)) * 10 + DigitVal(s[Len(s)])

\* the strings the program handles
s_NEM == <<"N","E","M">>
s_NEM_MARKET == <<"N","E","M","_","M","A","R","K","E","T">>
s_POWER == <<"P","O","W","E","R">>
s_power == <<"p","o","w","e","r">>
s_ENERGY == <<"E","N","E","R","G","Y">>
s_EMISSIONS == <<"E","M","I","S","S","I","O","N","S">>
s_MARKET_VALUE == <<"M","A","R","K","E","T","_","V","A","L","U","E">>
s_market_value == <<"m","a","r","k","e","t","_","v","a","l","u","e">>
s_VALUE == <<"V","A","L","U","E">>
s_MW == <<"M","W">>
s_dollar == <<"$">>
s_1M == <<"1","M">>
s_1h == <<"1","h">>
s_5m == <<"5","m">>
s_monthly_24months == <<"m","o","n","t","h","l","y","_","2","4","m","o","n","t","h","s">>
s_hourly_1month == <<"h","o","u","r","l","y","_","1","m","o","n","t","h">>
s_fivemin_1week == <<"f","i","v","e","m","i","n","_","1","w","e","e","k">>
s_csv == <<".","c","s","v">>

----------------------------------------------------------------------------
(* config.py *)

DEFAULT_NETWORK == s_NEM

\* Config.CACHE_EXPIRY_HOURS = 1/60 hour, in minutes
CACHE_EXPIRY_MINUTES == 1

\* Config.DATASETS, in the order the dict is written (the iteration order)
\* (a dict holds the keys written for it and no others)
DATASETS == <<
    [key |-> s_monthly_24months, interval |-> s_1M, months_back |-> 23,
     exclude_current_month |-> TRUE],
    [key |-> s_hourly_1month, interval |-> s_1h, days_back |-> 30],
    [key |-> s_fivemin_1week, interval |-> s_5m, days_back |-> 7] >>

DatasetIdx == 1..Len(DATASETS)
DatasetKeys == {DATASETS[i].key : i \in DatasetIdx}

\* the member names of openelectricity.types.DataMetric
DataMetric == {s_POWER, s_ENERGY, s_EMISSIONS, s_MARKET_VALUE}

----------------------------------------------------------------------------
(* Optional values and exceptions *)

None == [tag |-> "None"]
Some(df) == [tag |-> "df", df |-> df]
Raise(kind) == [tag |-> "raise", exc |-> kind]
NoException == "none"

IsNone(r) == r.tag = "None"
IsSome(r) == r.tag = "df"
IsRaise(r) == r.tag = "raise"

----------------------------------------------------------------------------
(* Cells and DataFrames *)

NaN == [t |-> "nan", v |-> 0]
Ts(n) == [t |-> "ts", v |-> n]
Num(n) == [t |-> "num", v |-> n]
Str(s) == [t |-> "str", v |-> s]

TidyColumns == <<"timestamp", "value", "metric", "unit", "interval", "network">>
CacheColumns == TidyColumns \o <<"fetch_timestamp", "dataset_type">>

Range(s) == {s[i] : i \in 1..Len(s)}

DataFrame(cols, rows) == [cols |-> cols, rows |-> rows]

\* the frame with the two bookkeeping columns of the cache dropped
WithoutBookkeeping(df) ==
    LET keep == {"fetch_timestamp", "dataset_type"}
        cols == SelectSeq(df.cols, LAMBDA c : c \notin keep)
    IN  DataFrame(cols,
                  [i \in 1..Len(df.rows) |-> [c \in Range(cols) |-> df.rows[i][c]]])

----------------------------------------------------------------------------
(* CSV text: DataFrame.to_csv(index=False) and pandas.read_csv              *)
(*                                                                         *)
(* A file is [header |-> <<column names>>, lines |-> <<lines>>], a line a  *)
(* sequence of cell texts; a zero-byte file has no header.  A timestamp    *)
(* prints as H:MM; a float carries one decimal and prints as -?D+.D        *)

Pad2(n) == IF n < 10 THEN <<"0">> \o FormatNat(n) ELSE FormatNat(n)

FormatTs(n) == FormatNat(n \div 60) \o <<":">> \o Pad2(n % 60)

Abs(n) == IF n < 0 THEN -n ELSE n

\* a float64, held in tenths
FormatFloat(n) ==
    (IF n < 0 THEN <<"-">> ELSE <<>>)
        \o FormatNat(Abs(n) \div 10) \o <<".">> \o FormatNat(Abs(n) % 10)

FormatCell(c) ==
    CASE c.t = "ts" -> FormatTs(c.v)
      [] c.t = "num" -> FormatFloat(c.v)
      [] c.t = "nan" -> <<>>
      [] OTHER -> c.v

\* to_csv without index=False: the row index is written as a first, unnamed column
to_csv_with_index(df) ==
    [header |-> <<"Unnamed: 0">> \o df.cols,
     lines |-> [i \in 1..Len(df.rows) |->
                   <<FormatNat(i - 1)>> \o
                   [j \in 1..Len(df.cols) |-> FormatCell(df.rows[i][df.cols[j]])]]]

to_csv(df) ==
    [header |-> df.cols,
     lines |-> [i \in 1..Len(df.rows) |->
                   [j \in 1..Len(df.cols) |-> FormatCell(df.rows[i][df.cols[j]])]]]

EmptyFile == [header |-> <<>>, lines |-> <<>>]

\* the texts read_csv reads as a missing value (pandas' default na_values)
NaValues == { <<>>, <<"N","A">>, <<"N","/","A">>, <<"n","/","a">>,
              <<"N","a","N">>, <<"n","a","n">>, <<"n","u","l","l">>,
              <<"N","U","L","L">>, <<"N","o","n","e">>, <<"#","N","/","A">> }

IndexOf(s, c) == IF \E i \in 1..Len(s) : s[i] = c
                 THEN CHOOSE i \in 1..Len(s) : s[i] = c /\ \A j \in 1..(i - 1) : s[j] # c
                 ELSE 0

Unsigned(s) == IF Len(s) > 0 /\ s[1] = "-" THEN Tail(s) ELSE s

IntPart(u) == IF IndexOf(u, ".") = 0 THEN u ELSE SubSeq(u, 1, IndexOf(u, ".") - 1)
FracPart(u) == IF IndexOf(u, ".") = 0 THEN <<>> ELSE SubSeq(u, IndexOf(u, ".") + 1, Len(u))

IsNumericText(s) ==
    LET u == Unsigned(s)
    IN  /\ AllDigits(IntPart(u))
        /\ \/ IndexOf(u, ".") = 0
           \/ (Len(FracPart(u)) = 1 /\ AllDigits(FracPart(u)))

ParseNumber(s) ==
    LET u == Unsigned(s)
        m == ParseNat(IntPart(u)) * 10 + ParseNat(FracPart(u))
    IN  IF Len(s) > 0 /\ s[1] = "-" THEN -m ELSE m

IsTsText(s) ==
    LET k == IndexOf(s, ":")
    IN  /\ k > 1
        /\ AllDigits(SubSeq(s, 1, k - 1))
        /\ Len(s) = k + 2
        /\ AllDigits(SubSeq(s, k + 1, Len(s)))
        /\ ParseNat(SubSeq(s, k + 1, Len(s))) < 60

ParseTs(s) ==
    LET k == IndexOf(s, ":")
    IN  ParseNat(SubSeq(s, 1, k - 1)) * 60 + ParseNat(SubSeq(s, k + 1, Len(s)))

\* the text of column j on a line; a short line is padded with missing values
CellText(line, j) == IF j <= Len(line) THEN line[j] ELSE <<>>

\* read_csv's type inference: a column of numbers and missing values is numeric
IsNumericColumn(file, j) ==
    \A i \in 1..Len(file.lines) :
        LET s == CellText(file.lines[i], j)
        IN  s \in NaValues \/ IsNumericText(s)

ParseCell(file, i, j) ==
    LET s == CellText(file.lines[i], j)
    IN  IF s \in NaValues THEN NaN
        ELSE IF IsNumericColumn(file, j) THEN Num(ParseNumber(s))
        ELSE Str(s)

ColumnIndex(cols, c) == CHOOSE j \in 1..Len(cols) : cols[j] = c

\* pandas.read_csv(filepath): Some(df), or the exception it raises
read_csv(file) ==
    IF Len(file.header) = 0 THEN Raise("EmptyDataError")
    ELSE IF \E i \in 1..Len(file.lines) : Len(file.lines[i]) > Len(file.header)
    THEN Raise("ParserError")
    ELSE Some(DataFrame(file.header,
            [i \in 1..Len(file.lines) |->
                [c \in Range(file.header) |->
                    ParseCell(file, i, ColumnIndex(file.header, c))]]))

----------------------------------------------------------------------------
(* utils.py: DataUtils.safe_convert_datetime *)

\* pandas.to_datetime on one cell can fail on a text that is no timestamp
ConvertibleTs(c) == c.t # "str" \/ IsTsText(c.v)

ToDatetime(c) ==
    CASE c.t = "str" -> Ts(ParseTs(c.v))
      [] c.t = "num" -> Ts(c.v \div 10)
      [] OTHER -> c

safe_convert_datetime(df) ==
    IF "timestamp" \notin Range(df.cols) THEN Some(df)
    ELSE IF \E i \in 1..Len(df.rows) : ~ConvertibleTs(df.rows[i].timestamp)
    THEN Raise("ValueError")
    ELSE Some(DataFrame(df.cols,
            [i \in 1..Len(df.rows) |->
                [df.rows[i] EXCEPT !.timestamp = ToDatetime(df.rows[i].timestamp)]]))

----------------------------------------------------------------------------
(* fetch.py: the API response and EnergyDataFetcher._process_api_response  *)
(*                                                                         *)
(* A response is [data |-> <<series>>]; a series is [metric, unit,         *)
(* network_code, results |-> <<result>>]; a result is [data |-> <<point>>] *)
(* and a point is [root |-> <<cells>>], well formed when it has two cells. *)

RECURSIVE Concat(_)
Concat(ss) == IF Len(ss) = 0 THEN <<>> ELSE Head(ss) \o Concat(Tail(ss))

\* a traversal that stops after the first result of a series
SeriesPoints_first_result(series) ==
    IF Len(series.results) = 0 THEN <<>>
    ELSE [p \in 1..Len(series.results[1].data) |->
             [series |-> series, point |-> series.results[1].data[p]]]

\* the points of a series with their owner, in traversal order
SeriesPoints(series) ==
    Concat([k \in 1..Len(series.results) |->
               [p \in 1..Len(series.results[k].data) |->
                   [series |-> series, point |-> series.results[k].data[p]]]])

ResponsePoints(response) ==
    Concat([k \in 1..Len(response.data) |-> SeriesPoints(response.data[k])])

\* timestamp, value = point.root
Unpacks(point) == Len(point.root) = 2

RowOf(sp, config) ==
    [timestamp |-> sp.point.root[1],
     value     |-> sp.point.root[2],
     metric    |-> Str(sp.series.metric),
     unit      |-> Str(sp.series.unit),
     interval  |-> Str(config.interval),
     network   |-> Str(sp.series.network_code)]

\* the sort key of a row; NaT sorts last
TsKey(row) == IF row.timestamp.t = "ts" THEN <<0, row.timestamp.v>> ELSE <<1, 0>>
KeyLeq(a, b) == a[1] < b[1] \/ (a[1] = b[1] /\ a[2] <= b[2])

Insert(sorted, row) ==
    LET n == Cardinality({i \in 1..Len(sorted) : KeyLeq(TsKey(sorted[i]), TsKey(row))})
    IN  SubSeq(sorted, 1, n) \o <<row>> \o SubSeq(sorted, n + 1, Len(sorted))

RECURSIVE SortRows(_)
SortRows(rows) ==
    IF Len(rows) = 0 THEN <<>>
    ELSE Insert(SortRows(SubSeq(rows, 1, Len(rows) - 1)), rows[Len(rows)])

\* the frame returned as built, without the sort
sort_values_omitted(df) == df

\* df.sort_values('timestamp')
sort_values(df) == DataFrame(df.cols, SortRows(df.rows))

NoResponse == [tag |-> "None"]

\* an empty frame, where the code returns None, for a response without points
process_api_response_empty_frame(response, config, dataset_key) ==
    IF response = NoResponse THEN None
    ELSE IF Len(response.data) = 0 THEN None
    ELSE LET pts == ResponsePoints(response)
         IN  IF \E i \in 1..Len(pts) : ~Unpacks(pts[i].point)
             THEN Raise("ValueError")
             ELSE LET df == DataFrame(TidyColumns,
                                      [i \in 1..Len(pts) |-> RowOf(pts[i], config)])
                      conv == safe_convert_datetime(df)
                  IN  IF IsRaise(conv) THEN conv
                      ELSE Some(sort_values(conv.df))

\* a normalizer that leaves out the points it cannot unpack or parse
process_api_response_skipping(response, config, dataset_key) ==
    IF response = NoResponse THEN None
    ELSE IF Len(response.data) = 0 THEN None
    ELSE LET pts == SelectSeq(ResponsePoints(response),
                              LAMBDA sp : /\ Unpacks(sp.point)
                                          /\ ConvertibleTs(sp.point.root[1]))
         IN  IF Len(pts) = 0 THEN None
             ELSE Some(sort_values(safe_convert_datetime(
                      DataFrame(TidyColumns,
                                [i \in 1..Len(pts) |-> RowOf(pts[i], config)])).df))

process_api_response(response, config, dataset_key) ==
    IF response = NoResponse THEN None
    ELSE IF Len(response.data) = 0 THEN None
    ELSE LET pts == ResponsePoints(response)
         IN  IF \E i \in 1..Len(pts) : ~Unpacks(pts[i].point)
             THEN Raise("ValueError")
             ELSE IF Len(pts) = 0 THEN None
             ELSE LET df == DataFrame(TidyColumns,
                                      [i \in 1..Len(pts) |-> RowOf(pts[i], config)])
                      conv == safe_convert_datetime(df)
                  IN  IF IsRaise(conv) THEN conv
                      ELSE Some(sort_values(conv.df))

----------------------------------------------------------------------------
(* fetch.py: metric resolution and EnergyDataFetcher._fetch_dataset *)

get_metric_enum(m) ==
    IF Upper(m) \in DataMetric THEN [tag |-> "enum", name |-> Upper(m)]
    ELSE Raise("ValueError")

\* What client.get_network_data did: it raised, or it returned a response
ApiRaised == [kind |-> "raise", resp |-> NoResponse]
ApiReturned(kind, resp) == [kind |-> kind, resp |-> resp]

\* the try block of _fetch_dataset: the API is reached only with a metric enum
fetch_dataset_try(config, m, api) ==
    IF IsRaise(get_metric_enum(m)) THEN get_metric_enum(m)
    ELSE IF api.kind = "raise" THEN Raise("APIError")
    ELSE process_api_response(api.resp, config, config.key)

\* _fetch_dataset without its except clause
fetch_dataset_uncaught(config, m, api) == fetch_dataset_try(config, m, api)

\* except Exception: print, return None
fetch_dataset(config, m, api) ==
    LET r == fetch_dataset_try(config, m, api)
    IN  IF IsRaise(r) THEN None ELSE r

\* get_network_data is called when the statements before it did not raise
ApiCalled(m) == ~IsRaise(get_metric_enum(m))

----------------------------------------------------------------------------
(* fetch.py: the cache *)

get_cache_filename(network_code, dataset_key, m) ==
    network_code \o <<"_">> \o m \o <<"_">> \o dataset_key \o s_csv

\* os.path.getctime after a write at time t: the creation time is kept when an
\* existing file is overwritten, the change time is the time of the write
CtimeAfterWrite(fs, fn, t) ==
    IF ctimeIsCreation /\ fn \in DOMAIN fs THEN fs[fn].ctime ELSE t

\* df_save: the frame with the two bookkeeping columns
WithBookkeeping(df, dataset_key, t) ==
    DataFrame(df.cols \o <<"fetch_timestamp", "dataset_type">>,
              [i \in 1..Len(df.rows) |->
                  [c \in Range(df.cols) \cup {"fetch_timestamp", "dataset_type"} |->
                      IF c = "fetch_timestamp" THEN Ts(t)
                      ELSE IF c = "dataset_type" THEN Str(dataset_key)
                      ELSE df.rows[i][c]]])

\* a write in append mode: the new lines follow the old ones
WriteFile_append(fs, fn, content, t) ==
    [f \in DOMAIN fs \cup {fn} |->
        IF f = fn
        THEN [content |-> IF fn \in DOMAIN fs
                          THEN [header |-> fs[fn].content.header,
                                lines |-> fs[fn].content.lines \o content.lines]
                          ELSE content,
              ctime |-> CtimeAfterWrite(fs, fn, t)]
        ELSE fs[f]]

WriteFile(fs, fn, content, t) ==
    [f \in DOMAIN fs \cup {fn} |->
        IF f = fn THEN [content |-> content, ctime |-> CtimeAfterWrite(fs, fn, t)]
        ELSE fs[f]]

\* _save_to_cache naming the file with dataset_key and metric swapped
save_to_cache_swapped(fs, t, network_code, df, dataset_key, m, writeOk) ==
    IF ~writeOk THEN fs
    ELSE WriteFile(fs, get_cache_filename(network_code, m, dataset_key),
                   to_csv(WithBookkeeping(df, dataset_key, t)), t)

\* _save_to_cache: the directory after the call.  writeOk = FALSE is a write
\* that cannot open the file (the exception is caught and printed).
save_to_cache(fs, t, network_code, df, dataset_key, m, writeOk) ==
    IF ~writeOk THEN fs
    ELSE WriteFile(fs, get_cache_filename(network_code, dataset_key, m),
                   to_csv(WithBookkeeping(df, dataset_key, t)), t)

\* the age test with >= for >: an entry aged exactly the expiry is rejected
load_from_cache_try_strict(fs, t, network_code, dataset_key, m, readOk) ==
    LET fn == get_cache_filename(network_code, dataset_key, m)
    IN  IF fn \notin DOMAIN fs THEN None
        ELSE IF t - fs[fn].ctime >= CACHE_EXPIRY_MINUTES THEN None
        ELSE IF ~readOk THEN Raise("OSError")
        ELSE LET df == read_csv(fs[fn].content)
             IN  IF IsRaise(df) THEN df ELSE safe_convert_datetime(df.df)

\* a load without the age test: an entry is returned however old it is
load_from_cache_try_no_expiry(fs, t, network_code, dataset_key, m, readOk) ==
    LET fn == get_cache_filename(network_code, dataset_key, m)
    IN  IF fn \notin DOMAIN fs THEN None
        ELSE IF ~readOk THEN Raise("OSError")
        ELSE LET df == read_csv(fs[fn].content)
             IN  IF IsRaise(df) THEN df ELSE safe_convert_datetime(df.df)

\* the try block of _load_from_cache.  readOk = FALSE is a file that cannot be read.
load_from_cache_try(fs, t, network_code, dataset_key, m, readOk) ==
    LET fn == get_cache_filename(network_code, dataset_key, m)
    IN  IF fn \notin DOMAIN fs THEN None
        ELSE IF t - fs[fn].ctime > CACHE_EXPIRY_MINUTES THEN None
        ELSE IF ~readOk THEN Raise("OSError")
        ELSE LET df == read_csv(fs[fn].content)
             IN  IF IsRaise(df) THEN df ELSE safe_convert_datetime(df.df)

\* _load_from_cache without its except clause
load_from_cache_uncaught(fs, t, network_code, dataset_key, m, readOk) ==
    load_from_cache_try(fs, t, network_code, dataset_key, m, readOk)

\* except Exception: print, return None
load_from_cache(fs, t, network_code, dataset_key, m, readOk) ==
    LET r == load_from_cache_try(fs, t, network_code, dataset_key, m, readOk)
    IN  IF IsRaise(r) THEN None ELSE r

----------------------------------------------------------------------------
(* The environment: what the API answers, and the cache directory found at  *)
(* start-up                                                                *)

Point(ts, value) == [root |-> <<ts, value>>]

\* the value the API reports in a series for a metric enum
MetricValue(m) == IF Upper(m) = s_MARKET_VALUE THEN s_market_value ELSE s_power
UnitOf(m) == IF Upper(m) = s_MARKET_VALUE THEN s_dollar ELSE s_MW

SeriesOf(m, res) ==
    [metric |-> MetricValue(m), unit |-> UnitOf(m), network_code |-> s_NEM,
     results |-> res]

\* two results, points out of order, one missing value, one negative value
GoodResponse(m) ==
    [data |-> << SeriesOf(m, << [data |-> << Point(Ts(65), Num(125)), Point(Ts(5), NaN) >>],
                               [data |-> << Point(Ts(0), Num(-30)) >>] >>) >>]

\* what an earlier run fetched
OldResponse(m) ==
    [data |-> << SeriesOf(m, << [data |-> << Point(Ts(0), Num(70)) >>] >>) >>]

NoSeriesResponse == [data |-> <<>>]

\* a point that is no (timestamp, value) pair
MalformedResponse(m) ==
    [data |-> << SeriesOf(m, << [data |-> << Point(Ts(5), Num(10)),
                                            [root |-> <<Ts(6), Num(10), Num(11)>>] >>] >>) >>]

\* a timestamp that is no date
BadTimestampResponse(m) ==
    [data |-> << SeriesOf(m, << [data |-> << Point(Ts(5), Num(10)),
                                            Point(Str(<<"x">>), Num(10)) >>] >>) >>]

ApiOutcomes(m) ==
    { ApiRaised,
      ApiReturned("no_series", NoSeriesResponse),
      ApiReturned("malformed", MalformedResponse(m)),
      ApiReturned("bad_timestamp", BadTimestampResponse(m)),
      ApiReturned("good", GoodResponse(m)) }

\* the responses _process_api_response turns into a table
Normalizable(api) == api.kind = "good"

EmptyDir == [f \in {} |-> [content |-> EmptyFile, ctime |-> 0]]

\* the file a save at time t leaves for (network, metric, dataset)
SavedFile(df, dataset_key, t) ==
    [content |-> to_csv(WithBookkeeping(df, dataset_key, t)), ctime |-> t]

OldFrame(config, m) == process_api_response(OldResponse(m), config, config.key).df

CacheName(i, m) == get_cache_filename(DEFAULT_NETWORK, DATASETS[i].key, m)

\* directories an earlier run can have left: nothing; every POWER dataset;
\* one good entry beside a zero-byte file left by an interrupted write
FullDir ==
    [f \in {CacheName(i, s_POWER) : i \in DatasetIdx} |->
        LET i == CHOOSE j \in DatasetIdx : CacheName(j, s_POWER) = f
        IN  SavedFile(OldFrame(DATASETS[i], s_POWER), DATASETS[i].key, 0)]

DamagedDir ==
    [f \in {CacheName(1, s_POWER), CacheName(2, s_POWER)} |->
        IF f = CacheName(1, s_POWER)
        THEN SavedFile(OldFrame(DATASETS[1], s_POWER), DATASETS[1].key, 0)
        ELSE [content |-> EmptyFile, ctime |-> 0]]

InitDirs == {EmptyDir, FullDir, DamagedDir}

\* the metric arguments given to fetch_data: two recognised, one not
MetricArgs == {s_POWER, s_MARKET_VALUE, s_VALUE}

----------------------------------------------------------------------------
(* fetch.py: EnergyDataFetcher.fetch_data, one loop iteration per step *)

Put(f, k, v) == [x \in DOMAIN f \cup {k} |-> IF x = k THEN v ELSE f[x]]

IdentityKey(network_code, m, dataset_key) ==
    [network |-> network_code, metric |-> m, dataset_key |-> dataset_key]

NameOf(k) == get_cache_filename(k.network, k.dataset_key, k.metric)

EmptyDict == [k \in {} |-> DataFrame(<<>>, <<>>)]
NoSaves == [k \in {} |-> [df |-> DataFrame(<<>>, <<>>), t |-> 0]]
NoStep == [i |-> 0, entry |-> "none", read |-> "none", api |-> "none", save |-> "none"]
NoCacheOp == [op |-> "none", n |-> 0, key |-> IdentityKey(<<>>, <<>>, <<>>), at |-> 0,
              ok |-> TRUE, before |-> 0, ret |-> None]
NoCall == [op |-> "none"]
NoNames == [a |-> <<>>, b |-> <<>>, names |-> <<>>]
Zeros == [i \in DatasetIdx |-> 0]
Pending == [i \in DatasetIdx |-> "pending"]

\* no fetch_data call has been made
FetchIdle ==
    /\ pc = "idle"
    /\ metric = s_POWER
    /\ use_cache = TRUE
    /\ idx = 1
    /\ results = EmptyDict
    /\ raised = NoException
    /\ iterations = 0
    /\ apiCalls = Zeros
    /\ cacheReads = Zeros
    /\ lastStep = NoStep
    /\ met = Pending

Init ==
    /\ ctimeIsCreation \in BOOLEAN
    /\ now = 0
    /\ files \in InitDirs
    /\ FetchIdle
    /\ lastSaved = NoSaves
    /\ cacheOp = NoCacheOp
    /\ nameArgs = NoNames
    /\ call = NoCall

\* the clock advances by a minute
Tick ==
    /\ now < MaxTime
    /\ now' = now + 1
    /\ UNCHANGED <<ctimeIsCreation, files, fetchVars, lastSaved, cacheOp, sideVars>>

\* fetch_data(metric, use_cache) is called: results = {}
CallFetchData ==
    /\ pc \in {"idle", "done"}
    /\ iterations < MaxIterations
    /\ \E m \in MetricArgs, uc \in BOOLEAN :
        /\ metric' = m
        /\ use_cache' = uc
    /\ pc' = "loop"
    /\ idx' = 1
    /\ results' = EmptyDict
    /\ raised' = NoException
    /\ apiCalls' = Zeros
    /\ cacheReads' = Zeros
    /\ lastStep' = NoStep
    /\ met' = Pending
    /\ UNCHANGED <<ctimeIsCreation, now, files, iterations, lastSaved, cacheOp,
                   sideVars>>

\* what the cache directory holds for a file name at time t
EntryState(fs, t, fn, readOk) ==
    IF fn \notin DOMAIN fs THEN "absent"
    ELSE IF t - fs[fn].ctime > CACHE_EXPIRY_MINUTES THEN "expired"
    ELSE IF ~readOk THEN "unreadable"
    ELSE IF fs[fn].content = EmptyFile THEN "corrupt"
    ELSE "intact"

\* the loaded frame is never taken: every dataset goes on to the API
CacheHit_ignored(cached) == FALSE

\* if cached_df is not None: results[dataset_key] = cached_df; continue
CacheHit(cached) == IsSome(cached)

\* a _fetch_dataset that calls the API again when the first call gave no table
ApiCallsMade_retry(m, api) ==
    IF ~ApiCalled(m) THEN 0 ELSE IF Normalizable(api) THEN 1 ELSE 2

\* the get_network_data calls one _fetch_dataset makes
ApiCallsMade(m, api) == IF ApiCalled(m) THEN 1 ELSE 0

\* after the last dataset the loop ends and fetch_data returns results
AfterIteration(i) == IF i = Len(DATASETS) THEN "done" ELSE "loop"

\* an exception no handler caught leaves fetch_data
Escapes(exc) ==
    /\ raised' = exc
    /\ pc' = "done"
    /\ met' = [met EXCEPT ![idx] = "raised"]
    /\ UNCHANGED <<files, results, idx, lastSaved>>

\* the body of the for loop, for DATASETS[idx]
FetchIteration ==
    /\ pc = "loop"
    /\ iterations < MaxIterations
    /\ iterations' = iterations + 1
    /\ \E api \in ApiOutcomes(metric), readOk \in BOOLEAN, writeOk \in BOOLEAN :
        LET config == DATASETS[idx]
            key == config.key
            fn == get_cache_filename(DEFAULT_NETWORK, key, metric)
            cached == IF use_cache
                      THEN load_from_cache(files, now, DEFAULT_NETWORK, key, metric, readOk)
                      ELSE None
            df == fetch_dataset(config, metric, api)
            step == [i |-> idx,
                     entry |-> IF use_cache THEN EntryState(files, now, fn, readOk)
                               ELSE "not_read",
                     read |-> IF ~use_cache THEN "not_tried"
                              ELSE IF IsSome(cached) THEN "hit"
                              ELSE IF IsRaise(cached) THEN "raised" ELSE "miss",
                     api |-> "not_called",
                     save |-> "not_tried"]
            seen == IF ApiCalled(metric) THEN api.kind ELSE "not_called"
        IN  /\ cacheReads' = [cacheReads EXCEPT ![idx] = @ + (IF use_cache THEN 1 ELSE 0)]
            /\ IF IsRaise(cached)
               THEN /\ Escapes(cached.exc)
                    /\ lastStep' = step
                    /\ UNCHANGED apiCalls
               ELSE IF CacheHit(cached)
               THEN /\ results' = Put(results, key, cached.df)
                    /\ idx' = idx + 1
                    /\ pc' = AfterIteration(idx)
                    /\ lastStep' = step
                    /\ met' = [met EXCEPT ![idx] = "hit"]
                    /\ UNCHANGED <<files, raised, apiCalls, lastSaved>>
               ELSE /\ apiCalls' = [apiCalls EXCEPT ![idx] = @ + ApiCallsMade(metric, api)]
                    /\ IF IsRaise(df)
                       THEN /\ Escapes(df.exc)
                            /\ lastStep' = [step EXCEPT !.api = seen]
                       ELSE /\ idx' = idx + 1
                            /\ pc' = AfterIteration(idx)
                            /\ UNCHANGED raised
                            /\ IF IsSome(df)
                               THEN /\ results' = Put(results, key, df.df)
                                    /\ files' = save_to_cache(files, now, DEFAULT_NETWORK,
                                                              df.df, key, metric, writeOk)
                                    /\ lastSaved' =
                                         IF ~writeOk THEN lastSaved
                                         ELSE Put(lastSaved,
                                                  IdentityKey(DEFAULT_NETWORK, metric, key),
                                                  [df |-> df.df, t |-> now])
                                    /\ lastStep' =
                                         [step EXCEPT !.api = seen,
                                              !.save = IF writeOk THEN "ok" ELSE "failed"]
                               ELSE /\ lastStep' = [step EXCEPT !.api = seen]
                                    /\ UNCHANGED <<files, results, lastSaved>>
                            /\ met' = [met EXCEPT ![idx] =
                                         IF ApiCalled(metric) /\ Normalizable(api)
                                         THEN (IF writeOk THEN "saved" ELSE "unsaved")
                                         ELSE "nothing"]
    /\ UNCHANGED <<ctimeIsCreation, now, metric, use_cache, cacheOp, sideVars>>

Next == CallFetchData \/ FetchIteration \/ Tick

Spec == Init /\ [][Next]_vars

----------------------------------------------------------------------------
(* The cache on its own: _save_to_cache and _load_from_cache called with    *)
(* the arguments fetch_data gives them, in any order, as the clock advances *)

GoodFrame(config, m) == process_api_response(GoodResponse(m), config, config.key).df

\* an afternoon reading: two-digit hours, three-digit value
LateResponse(m) ==
    [data |-> << SeriesOf(m, << [data |-> << Point(Ts(600), Num(1005)),
                                            Point(Ts(659), Num(0)) >>] >>) >>]

LateFrame(config, m) == process_api_response(LateResponse(m), config, config.key).df

\* the frames fetch_data hands to _save_to_cache
SaveFrames(config, m) == {OldFrame(config, m), GoodFrame(config, m), LateFrame(config, m)}

\* the metric arguments under which fetch_data reaches _save_to_cache
CacheMetrics == {s_POWER}

InitCache ==
    /\ ctimeIsCreation \in BOOLEAN
    /\ now = 0
    /\ files = EmptyDir
    /\ FetchIdle
    /\ lastSaved = NoSaves
    /\ cacheOp = NoCacheOp
    /\ nameArgs = NoNames
    /\ call = NoCall

\* self._save_to_cache(df, dataset_key, metric)
CallSave ==
    /\ cacheOp.n < MaxCacheOps
    /\ \E i \in DatasetIdx, m \in CacheMetrics, writeOk \in BOOLEAN :
        \E df \in SaveFrames(DATASETS[i], m) :
            LET k == IdentityKey(DEFAULT_NETWORK, m, DATASETS[i].key)
            IN  /\ files' = save_to_cache(files, now, DEFAULT_NETWORK, df,
                                          DATASETS[i].key, m, writeOk)
                /\ lastSaved' = IF ~writeOk THEN lastSaved
                                ELSE Put(lastSaved, k, [df |-> df, t |-> now])
                /\ cacheOp' = [op |-> "save", n |-> cacheOp.n + 1, key |-> k, at |-> now,
                               ok |-> writeOk, ret |-> None,
                               before |-> IF NameOf(k) \in DOMAIN files
                                          THEN Len(files[NameOf(k)].content.lines)
                                          ELSE 0]
    /\ UNCHANGED <<ctimeIsCreation, now, fetchVars, sideVars>>

\* self._load_from_cache(dataset_key, metric)
CallLoad ==
    /\ cacheOp.n < MaxCacheOps
    /\ \E i \in DatasetIdx, m \in CacheMetrics, readOk \in BOOLEAN :
        LET k == IdentityKey(DEFAULT_NETWORK, m, DATASETS[i].key)
        IN  cacheOp' = [op |-> "load", n |-> cacheOp.n + 1, key |-> k, at |-> now,
                        ok |-> readOk, before |-> 0,
                        ret |-> load_from_cache(files, now, DEFAULT_NETWORK,
                                                DATASETS[i].key, m, readOk)]
    /\ UNCHANGED <<ctimeIsCreation, now, files, fetchVars, lastSaved, sideVars>>

NextCache == CallSave \/ CallLoad \/ Tick

SpecCache == InitCache /\ [][NextCache]_vars

----------------------------------------------------------------------------
(* _get_cache_filename on its own, on two identity triples *)

Networks == {s_NEM, s_NEM_MARKET}

Triples == [network : Networks, metric : MetricArgs, dataset_key : DatasetKeys]

InitName ==
    /\ ctimeIsCreation = FALSE
    /\ now = 0
    /\ files = EmptyDir
    /\ FetchIdle
    /\ lastSaved = NoSaves
    /\ cacheOp = NoCacheOp
    /\ nameArgs \in {[a |-> x, b |-> y, names |-> <<>>] : x \in Triples, y \in Triples}
    /\ call = NoCall

GetCacheFilenames ==
    /\ nameArgs.names = <<>>
    /\ nameArgs' = [nameArgs EXCEPT !.names = <<NameOf(nameArgs.a), NameOf(nameArgs.b)>>]
    /\ UNCHANGED <<ctimeIsCreation, now, files, fetchVars, lastSaved, cacheOp, call>>

NextName == GetCacheFilenames

SpecName == InitName /\ [][NextName]_vars

----------------------------------------------------------------------------
(* fetch.py: EnergyDataFetcher._calculate_date_range, with the datetime and *)
(* timedelta arithmetic it uses. A datetime is [year, month, day, minute],  *)
(* minute being the minute of the day.                                     *)

datetime(y, m, d, mi) == [year |-> y, month |-> m, day |-> d, minute |-> mi]

IsLeap(y) == y % 4 = 0 /\ (y % 100 # 0 \/ y % 400 = 0)

DaysInMonth(y, m) ==
    IF m = 2 THEN (IF IsLeap(y) THEN 29 ELSE 28)
    ELSE IF m \in {4, 6, 9, 11} THEN 30 ELSE 31

\* the datetime constructor raises ValueError outside these ranges
ValidDate(d) ==
    /\ d.year >= 1
    /\ d.month \in 1..12
    /\ d.day \in 1..DaysInMonth(d.year, d.month)

\* days before January 1st of year y
DaysBeforeYear(y) ==
    LET p == y - 1 IN p * 365 + p \div 4 - p \div 100 + p \div 400

RECURSIVE DaysBeforeMonth(_, _)
DaysBeforeMonth(y, m) ==
    IF m = 1 THEN 0 ELSE DaysBeforeMonth(y, m - 1) + DaysInMonth(y, m - 1)

\* the proleptic Gregorian ordinal of a date: 1 is 0001-01-01
toordinal(d) == DaysBeforeYear(d.year) + DaysBeforeMonth(d.year, d.month) + d.day

\* the date of an ordinal of year y
OrdinalInYear(y, n, mi) ==
    LET r == n - DaysBeforeYear(y)
        m == CHOOSE k \in 1..12 :
                 DaysBeforeMonth(y, k) < r /\ r <= DaysBeforeMonth(y, k) + DaysInMonth(y, k)
    IN  datetime(y, m, r - DaysBeforeMonth(y, m), mi)

RECURSIVE fromordinal(_, _, _)
fromordinal(y, n, mi) ==
    IF n <= DaysBeforeYear(y) THEN fromordinal(y - 1, n, mi)
    ELSE IF n > DaysBeforeYear(y + 1) THEN fromordinal(y + 1, n, mi)
    ELSE OrdinalInYear(y, n, mi)

\* d - timedelta(days=n): the time of day is kept
MinusDays(d, n) == fromordinal(d.year, toordinal(d) - n, d.minute)

\* lines 85-89 without the branch for January
MonthlyEnd_no_rollover(current_date) ==
    datetime(current_date.year, current_date.month - 1, 1, 0)

\* lines 85-89: the first instant of the month before the current one
MonthlyEnd(current_date) ==
    IF current_date.month = 1
    THEN datetime(current_date.year - 1, 12, 1, 0)
    ELSE datetime(current_date.year, current_date.month - 1, 1, 0)

\* lines 95-98 without the branch for a month index of 0
MonthlyStart_no_wrap(end_date, months_back) ==
    LET total_months == end_date.year * 12 + end_date.month - months_back
    IN  datetime(total_months \div 12, total_months % 12, 1, 0)

\* lines 91-100: integer month arithmetic
MonthlyStart(end_date, months_back) ==
    LET total_months == end_date.year * 12 + end_date.month - months_back
        start_year == total_months \div 12
        start_month == total_months % 12
    IN  IF start_month = 0
        THEN datetime(start_year - 1, 12, 1, 0)
        ELSE datetime(start_year, start_month, 1, 0)

DateRange(start_date, end_date) ==
    IF ValidDate(start_date) /\ ValidDate(end_date)
    THEN [tag |-> "range", start |-> start_date, end |-> end_date]
    ELSE Raise("ValueError")

\* config.get('exclude_current_month', False) and 'months_back' in config
IsMonthly(config) ==
    /\ "exclude_current_month" \in DOMAIN config
    /\ config.exclude_current_month
    /\ "months_back" \in DOMAIN config

\* the day-based branch ending at the midnight before the reference instant
calculate_date_range_midnight(config, N) ==
    IF IsMonthly(config)
    THEN DateRange(MonthlyStart(MonthlyEnd(N), config.months_back), MonthlyEnd(N))
    ELSE IF "days_back" \notin DOMAIN config THEN Raise("KeyError")
    ELSE DateRange(MinusDays([N EXCEPT !.minute = 0], config.days_back),
                   [N EXCEPT !.minute = 0])

\* _calculate_date_range at reference instant N = datetime.now()
calculate_date_range(config, N) ==
    IF IsMonthly(config)
    THEN DateRange(MonthlyStart(MonthlyEnd(N), config.months_back), MonthlyEnd(N))
    ELSE IF "days_back" \notin DOMAIN config THEN Raise("KeyError")
    ELSE DateRange(MinusDays(N, config.days_back), N)

\* the reference instants and the dataset specs the function is called on:
\* the configured ones, day lookbacks, and month lookbacks from 0 up
Years == FirstYear..(FirstYear + MaxYears - 1)

Instants ==
    {datetime(y, m, d, mi) : y \in Years, m \in 1..12, d \in {1, 15, 28}, mi \in {0, 615}}
    \cup {datetime(y, m, DaysInMonth(y, m), 1439) : y \in Years, m \in 1..12}

DayLookbacks == {0, 1, 7, 30, 366}

RangeConfigs ==
    {DATASETS[i] : i \in DatasetIdx}
    \cup {[days_back |-> d] : d \in DayLookbacks}
    \cup {[months_back |-> k, exclude_current_month |-> TRUE] : k \in 0..MaxMonthsBack}

InitRange ==
    /\ ctimeIsCreation = FALSE
    /\ now = 0
    /\ files = EmptyDir
    /\ FetchIdle
    /\ lastSaved = NoSaves
    /\ cacheOp = NoCacheOp
    /\ nameArgs = NoNames
    /\ call \in {[op |-> "range", done |-> FALSE, config |-> c, N |-> n, ret |-> None] :
                    c \in RangeConfigs, n \in Instants}

CallCalculateDateRange ==
    /\ call.op = "range"
    /\ ~call.done
    /\ call' = [call EXCEPT !.done = TRUE,
                            !.ret = calculate_date_range(call.config, call.N)]
    /\ UNCHANGED <<ctimeIsCreation, now, files, fetchVars, lastSaved, cacheOp, nameArgs>>

NextRange == CallCalculateDateRange

SpecRange == InitRange /\ [][NextRange]_vars

----------------------------------------------------------------------------
(* _process_api_response on its own. A response is drawn as a shape (the    *)
(* number of series and of results per series) and a sequence of points,   *)
(* each placed in one result of one series.                                *)

SeriesIdx == 1..2
ResultIdx == 1..2

\* the series the API sends: each has its own metric, unit and network
SeriesKind(k, res) ==
    IF k = 1
    THEN [metric |-> s_power, unit |-> s_MW, network_code |-> s_NEM, results |-> res]
    ELSE [metric |-> s_market_value, unit |-> s_dollar, network_code |-> s_NEM_MARKET,
          results |-> res]

\* the points drawn: two share an instant, one has no value
PointKinds == {Point(Ts(5), Num(20)), Point(Ts(0), Num(10)), Point(Ts(5), NaN)}

Placements(ns, nr) == [s : 1..ns, r : 1..nr, point : PointKinds]

RECURSIVE SeqsUpTo(_, _)
SeqsUpTo(S, n) ==
    IF n = 0 THEN {<<>>}
    ELSE LET shorter == SeqsUpTo(S, n - 1)
         IN  shorter \cup {Append(q, x) : q \in {t \in shorter : Len(t) = n - 1}, x \in S}

PlacedIn(placed, k, j) ==
    LET here == SelectSeq(placed, LAMBDA pl : pl.s = k /\ pl.r = j)
    IN  [i \in 1..Len(here) |-> here[i].point]

ResponseOf(ns, nr, placed) ==
    [data |-> [k \in 1..ns |->
                  SeriesKind(k, [j \in 1..nr |-> [data |-> PlacedIn(placed, k, j)]])]]

Responses ==
    {NoResponse} \cup
    UNION {{ResponseOf(ns, nr, placed) : placed \in SeqsUpTo(Placements(ns, nr), MaxPoints)} :
              ns \in {0} \cup SeriesIdx, nr \in {0} \cup ResultIdx}

InitNormalize ==
    /\ ctimeIsCreation = FALSE
    /\ now = 0
    /\ files = EmptyDir
    /\ FetchIdle
    /\ lastSaved = NoSaves
    /\ cacheOp = NoCacheOp
    /\ nameArgs = NoNames
    /\ call \in {[op |-> "normalize", done |-> FALSE, response |-> resp,
                  config |-> DATASETS[i], ret |-> None] :
                    resp \in Responses, i \in DatasetIdx}

CallProcessApiResponse ==
    /\ call.op = "normalize"
    /\ ~call.done
    /\ call' = [call EXCEPT !.done = TRUE,
                            !.ret = process_api_response(call.response, call.config,
                                                         call.config.key)]
    /\ UNCHANGED <<ctimeIsCreation, now, files, fetchVars, lastSaved, cacheOp, nameArgs>>

NextNormalize == CallProcessApiResponse

SpecNormalize == InitNormalize /\ [][NextNormalize]_vars

----------------------------------------------------------------------------
(* fetch.py: fetch_data as a function of the directory, the time and what   *)
(* the environment does at each dataset, and fetch_power_and_market_data   *)

\* lines 48-54: what the loop body does with the table _fetch_dataset returned
IterationFetched(df, fs, t, network_code, config, m, env) ==
    IF IsSome(df)
    THEN [df |-> df,
          files |-> save_to_cache(fs, t, network_code, df.df, config.key, m, env.writeOk)]
    ELSE [df |-> None, files |-> fs]

\* a hit that writes the served table back, giving the entry a new age
IterationLoaded_resaving(cached, fs, t, network_code, config, m, env) ==
    IF IsSome(cached)
    THEN [df |-> cached,
          files |-> save_to_cache(fs, t, network_code, WithoutBookkeeping(cached.df),
                                  config.key, m, TRUE)]
    ELSE IterationFetched(fetch_dataset(config, m, env.api), fs, t, network_code,
                          config, m, env)

\* lines 42-47: what the loop body does with what _load_from_cache returned
IterationLoaded(cached, fs, t, network_code, config, m, env) ==
    IF CacheHit(cached) THEN [df |-> cached, files |-> fs]
    ELSE IterationFetched(fetch_dataset(config, m, env.api), fs, t, network_code,
                          config, m, env)

\* one pass of the loop body: the table obtained, if any, and the directory left
Iteration(fs, t, network_code, config, m, uc, env) ==
    IterationLoaded(IF uc
                    THEN load_from_cache(fs, t, network_code, config.key, m, env.readOk)
                    ELSE None,
                    fs, t, network_code, config, m, env)

\* results[dataset_key] = df, when there is a table
Collected(acc, key, it) ==
    [results |-> IF IsSome(it.df) THEN Put(acc.results, key, it.df.df) ELSE acc.results,
     files |-> it.files]

RECURSIVE FetchLoop(_, _, _, _, _, _, _)
FetchLoop(i, acc, t, network_code, m, uc, envs) ==
    IF i > Len(DATASETS) THEN acc
    ELSE FetchLoop(i + 1,
                   Collected(acc, DATASETS[i].key,
                             Iteration(acc.files, t, network_code, DATASETS[i], m, uc,
                                       envs[i])),
                   t, network_code, m, uc, envs)

\* EnergyDataFetcher(network_code).fetch_data(m, uc)
fetch_data(fs, t, network_code, m, uc, envs) ==
    FetchLoop(1, [results |-> EmptyDict, files |-> fs], t, network_code, m, uc, envs)

\* lines 201-204: the mapping returned, with the directory the two passes left
BothResults(p, m) ==
    [power |-> p.results, market_value |-> m.results, files |-> m.files]

\* line 199 after line 196: the market pass on the directory the power pass left
MarketAfter(p, tm, network, uc, envM) ==
    BothResults(p, fetch_data(p.files, tm, network, s_MARKET_VALUE, uc, envM))

\* a market pass that is skipped when the power pass brought nothing
fetch_power_and_market_data_short(fs, tp, tm, network, uc, envP, envM) ==
    LET p == fetch_data(fs, tp, network, s_POWER, uc, envP)
    IN  IF DOMAIN p.results = {}
        THEN BothResults(p, [results |-> EmptyDict, files |-> p.files])
        ELSE MarketAfter(p, tm, network, uc, envM)

\* the power pass at time tp, then the market pass at time tm
fetch_power_and_market_data(fs, tp, tm, network, uc, envP, envM) ==
    MarketAfter(fetch_data(fs, tp, network, s_POWER, uc, envP), tm, network, uc, envM)

\* what the API does at the three datasets of one pass
PassOutcomes(m) ==
    { ApiRaised, ApiReturned("no_series", NoSeriesResponse), ApiReturned("good", GoodResponse(m)) }

PassEnvs(m, writes) ==
    {[i \in DatasetIdx |-> [api |-> a[i], readOk |-> TRUE, writeOk |-> w]] :
        a \in [DatasetIdx -> PassOutcomes(m)], w \in writes}

\* a directory an earlier run left: every dataset of both metrics, written at 0
BothDir ==
    [f \in {CacheName(i, m) : i \in DatasetIdx, m \in {s_POWER, s_MARKET_VALUE}} |->
        LET im == CHOOSE x \in DatasetIdx \X {s_POWER, s_MARKET_VALUE} :
                      CacheName(x[1], x[2]) = f
        IN  SavedFile(OldFrame(DATASETS[im[1]], im[2]), DATASETS[im[1]].key, 0)]

InitBoth ==
    /\ ctimeIsCreation \in BOOLEAN
    /\ now = 0
    /\ files \in {EmptyDir, BothDir}
    /\ FetchIdle
    /\ lastSaved = NoSaves
    /\ cacheOp = NoCacheOp
    /\ nameArgs = NoNames
    /\ call \in {[op |-> "both", done |-> FALSE, use_cache |-> uc] : uc \in BOOLEAN}

CallFetchPowerAndMarketData ==
    /\ call.op = "both"
    /\ ~call.done
    /\ \E envP \in PassEnvs(s_POWER, BOOLEAN), envM \in PassEnvs(s_MARKET_VALUE, {TRUE}),
          tm \in now..MaxTime :
        LET ret == fetch_power_and_market_data(files, now, tm, DEFAULT_NETWORK,
                                               call.use_cache, envP, envM)
        IN  /\ call' = [op |-> "both", done |-> TRUE, use_cache |-> call.use_cache,
                        before |-> files, envP |-> envP, envM |-> envM,
                        tp |-> now, tm |-> tm,
                        power |-> ret.power, market_value |-> ret.market_value]
            /\ files' = ret.files
            /\ now' = tm
    /\ UNCHANGED <<ctimeIsCreation, fetchVars, lastSaved, cacheOp, nameArgs>>

NextBoth == CallFetchPowerAndMarketData

SpecBoth == InitBoth /\ [][NextBoth]_vars

----------------------------------------------------------------------------
(* fetch.py: fetch_data(POWER, use_cache=True) called again and again on    *)
(* one directory while the clock advances                                  *)

\* the API raises at every dataset, or answers for the first one only
PassesEnvs ==
    {[i \in DatasetIdx |->
        [api |-> IF i = 1 THEN a ELSE ApiRaised, readOk |-> TRUE, writeOk |-> TRUE]] :
        a \in {ApiRaised, ApiReturned("good", GoodResponse(s_POWER))}}

\* a table read from a cache file carries the bookkeeping columns of the save
FromCache(df) == "fetch_timestamp" \in Range(df.cols)

NoPasses ==
    [op |-> "passes", n |-> 0, hits |-> 0, results |-> EmptyDict]

InitPasses ==
    /\ ctimeIsCreation \in BOOLEAN
    /\ now = 0
    /\ files \in {EmptyDir, FullDir}
    /\ FetchIdle
    /\ lastSaved = NoSaves
    /\ cacheOp = NoCacheOp
    /\ nameArgs = NoNames
    /\ call = NoPasses

\* results = fetcher.fetch_data('POWER', True)
CallPass ==
    /\ call.op = "passes"
    /\ call.n < MaxPasses
    /\ \E envs \in PassesEnvs :
        LET ret == fetch_data(files, now, DEFAULT_NETWORK, s_POWER, TRUE, envs)
        IN  /\ files' = ret.files
            /\ call' = [op |-> "passes", n |-> call.n + 1,
                        hits |-> call.hits +
                                 (IF /\ DATASETS[1].key \in DOMAIN ret.results
                                     /\ FromCache(ret.results[DATASETS[1].key])
                                  THEN 1 ELSE 0),
                        results |-> ret.results]
    /\ UNCHANGED <<ctimeIsCreation, now, fetchVars, lastSaved, cacheOp, nameArgs>>

NextPasses == CallPass \/ Tick

SpecPasses == InitPasses /\ [][NextPasses]_vars

----------------------------------------------------------------------------
(* fetch.py: two runs fetching the first POWER dataset on one directory.    *)
(* _save_to_cache writes through open(filepath, 'w'): the file is truncated *)
(* when it is opened and filled by one write() call per flushed buffer,    *)
(* each at the writer's own offset.  Offsets are counted in lines, the     *)
(* lines of the two runs' files being equally long.                        *)

Runs == {"A", "B"}

\* what the API answers to each run: run B asks a moment later and is given
\* a revised second reading and one reading more
RaceResponse(p) ==
    [data |-> << SeriesOf(s_POWER,
        << [data |-> IF p = "A"
                     THEN << Point(Ts(0), Num(10)), Point(Ts(5), Num(20)) >>
                     ELSE << Point(Ts(0), Num(10)), Point(Ts(5), Num(25)),
                             Point(Ts(10), Num(30)) >>] >>) >>]

\* the lines df_save.to_csv writes for a run that filled fetch_timestamp at t
RaceLines(p, t) ==
    LET df == fetch_dataset(DATASETS[1], s_POWER, ApiReturned("good", RaceResponse(p))).df
        csv == to_csv(WithBookkeeping(df, DATASETS[1].key, t))
    IN  <<csv.header>> \o csv.lines

\* bytes never written, left before a write that landed beyond the end of the
\* file: they read as NUL characters in front of the line that follows
Nul == "NUL"
Hole == << <<Nul>> >>

RECURSIVE Collapse(_)
Collapse(raw) ==
    IF Len(raw) < 2 THEN raw
    ELSE IF Head(raw) = Hole
    THEN Collapse(<<[raw[2] EXCEPT ![1] = <<Nul>> \o @]>> \o SubSeq(raw, 3, Len(raw)))
    ELSE <<Head(raw)>> \o Collapse(Tail(raw))

\* the file as read_csv sees it
FromRaw(raw) ==
    IF Len(raw) = 0 THEN EmptyFile
    ELSE [header |-> Head(Collapse(raw)), lines |-> Tail(Collapse(raw))]

\* write(chunk) at offset pos: what lies under the chunk is replaced, what lies
\* beyond it is kept, and a gap before it stays unwritten
WriteAt(raw, pos, chunk) ==
    [i \in 1..(IF Len(raw) > pos + Len(chunk) THEN Len(raw) ELSE pos + Len(chunk)) |->
        IF i > pos /\ i <= pos + Len(chunk) THEN chunk[i - pos]
        ELSE IF i <= Len(raw) THEN raw[i]
        ELSE Hole]

RaceFile == get_cache_filename(DEFAULT_NETWORK, DATASETS[1].key, s_POWER)

RaceStart ==
    [op |-> "race",
     pc |-> [p \in Runs |-> "load"],
     loaded |-> [p \in Runs |-> Raise("not_called")],
     at |-> [p \in Runs |-> 0],
     pos |-> [p \in Runs |-> 0],
     raw |-> <<>>]

InitRace ==
    /\ ctimeIsCreation \in BOOLEAN
    /\ now = 0
    /\ files = EmptyDir
    /\ FetchIdle
    /\ lastSaved = NoSaves
    /\ cacheOp = NoCacheOp
    /\ nameArgs = NoNames
    /\ call = RaceStart

RaceUnchanged == UNCHANGED <<ctimeIsCreation, now, fetchVars, lastSaved, cacheOp, nameArgs>>

\* lines 41-45: cached_df = self._load_from_cache(dataset_key, metric)
RaceLoad(p) ==
    /\ call.op = "race"
    /\ call.pc[p] = "load"
    /\ LET r == load_from_cache(files, now, DEFAULT_NETWORK, DATASETS[1].key, s_POWER, TRUE)
       IN  call' = [call EXCEPT !.loaded[p] = r,
                                !.pc[p] = IF CacheHit(r) THEN "done" ELSE "open"]
    /\ UNCHANGED files
    /\ RaceUnchanged

\* lines 152-154: fetch_timestamp is filled, then to_csv opens the file for
\* writing, which empties it
RaceOpen(p) ==
    /\ call.op = "race"
    /\ call.pc[p] = "open"
    /\ call' = [call EXCEPT !.pc[p] = "write", !.at[p] = now, !.pos[p] = 0, !.raw = <<>>]
    /\ files' = WriteFile(files, RaceFile, EmptyFile, now)
    /\ RaceUnchanged

\* line 154: one write() call of to_csv; the last one is followed by close()
RaceWrite(p) ==
    /\ call.op = "race"
    /\ call.pc[p] = "write"
    /\ \E k \in 1..(Len(RaceLines(p, call.at[p])) - call.pos[p]) :
        LET lines == RaceLines(p, call.at[p])
            raw == WriteAt(call.raw, call.pos[p],
                           SubSeq(lines, call.pos[p] + 1, call.pos[p] + k))
        IN  /\ call' = [call EXCEPT !.raw = raw,
                                    !.pos[p] = @ + k,
                                    !.pc[p] = IF call.pos[p] + k = Len(lines)
                                              THEN "done" ELSE "write"]
            /\ files' = WriteFile(files, RaceFile, FromRaw(raw), now)
    /\ RaceUnchanged

NextRace == (\E p \in Runs : RaceLoad(p) \/ RaceOpen(p) \/ RaceWrite(p)) \/ Tick

SpecRace == InitRace /\ [][NextRace]_vars

----------------------------------------------------------------------------
(* app.py: main, one step per position. The statements of lines 24-25 run  *)
(* on every path that reaches them: use_cache is False.                    *)

MainStart ==
    [op |-> "main", pc |-> "start", fetched |-> FALSE,
     power_data |-> EmptyDict, market_data |-> EmptyDict,
     out |-> <<>>, plots |-> "not_started", report |-> "not_started"]

\* the condition with 'or' for 'and'
BothEmpty_either(power_data, market_data) ==
    DOMAIN power_data = {} \/ DOMAIN market_data = {}

\* if not power_data and not market_data
BothEmpty(power_data, market_data) ==
    DOMAIN power_data = {} /\ DOMAIN market_data = {}

InitMain ==
    /\ ctimeIsCreation = FALSE
    /\ now = 0
    /\ files = EmptyDir
    /\ FetchIdle
    /\ lastSaved = NoSaves
    /\ cacheOp = NoCacheOp
    /\ nameArgs = NoNames
    /\ call = MainStart

MainUnchanged == UNCHANGED <<ctimeIsCreation, fetchVars, lastSaved, cacheOp, nameArgs>>

\* lines 7-16: the prompt; any answer but 'y' ends the run
MainConfirm ==
    /\ call.op = "main"
    /\ call.pc = "start"
    /\ \E confirm \in {"y", "n"} :
        call' = IF confirm = "y"
                THEN [call EXCEPT !.pc = "fetch", !.out = Append(@, "fetching_data")]
                ELSE [call EXCEPT !.pc = "ended", !.out = Append(@, "cancelled")]
    /\ UNCHANGED <<now, files>>
    /\ MainUnchanged

\* lines 18-31: fetch_power_and_market_data(Config.DEFAULT_NETWORK, use_cache=False);
\* building a fetcher can raise (FileUtils.ensure_directory), which the handler
\* of lines 53-58 reports
MainFetch ==
    /\ call.op = "main"
    /\ call.pc = "fetch"
    /\ \/ /\ call' = [call EXCEPT !.pc = "ended", !.out = Append(@, "error")]
          /\ UNCHANGED <<now, files>>
       \/ \E envP \in PassEnvs(s_POWER, BOOLEAN),
             envM \in PassEnvs(s_MARKET_VALUE, BOOLEAN), tm \in now..MaxTime :
            LET ret == fetch_power_and_market_data(files, now, tm, DEFAULT_NETWORK,
                                                   FALSE, envP, envM)
            IN  /\ call' = [call EXCEPT !.pc = "check", !.fetched = TRUE,
                                        !.power_data = ret.power,
                                        !.market_data = ret.market_value]
                /\ files' = ret.files
                /\ now' = tm
    /\ MainUnchanged

\* lines 33-37
MainCheck ==
    /\ call.op = "main"
    /\ call.pc = "check"
    /\ call' = IF BothEmpty(call.power_data, call.market_data)
               THEN [call EXCEPT !.pc = "ended", !.out = Append(@, "DATA_FETCH_ERROR")]
               ELSE [call EXCEPT !.pc = "plots", !.out = Append(@, "got_datasets")]
    /\ UNCHANGED <<now, files>>
    /\ MainUnchanged

\* lines 39-40: generate_energy_plots returns, or raises into the handler
MainPlots ==
    /\ call.op = "main"
    /\ call.pc = "plots"
    /\ \E returns \in BOOLEAN :
        call' = IF returns
                THEN [call EXCEPT !.pc = "report", !.plots = "returned",
                                  !.out = Append(@, "generating_plots")]
                ELSE [call EXCEPT !.pc = "ended", !.plots = "raised",
                                  !.out = Append(Append(@, "generating_plots"), "error")]
    /\ UNCHANGED <<now, files>>
    /\ MainUnchanged

\* lines 42-49: generate_energy_report returns, or raises into the handler
MainReport ==
    /\ call.op = "main"
    /\ call.pc = "report"
    /\ \E returns \in BOOLEAN :
        call' = IF returns
                THEN [call EXCEPT !.pc = "ended", !.report = "returned",
                                  !.out = Append(Append(@, "generating_report"), "completion")]
                ELSE [call EXCEPT !.pc = "ended", !.report = "raised",
                                  !.out = Append(Append(@, "generating_report"), "error")]
    /\ UNCHANGED <<now, files>>
    /\ MainUnchanged

NextMain == MainConfirm \/ MainFetch \/ MainCheck \/ MainPlots \/ MainReport

SpecMain == InitMain /\ [][NextMain]_vars

----------------------------------------------------------------------------
(* The double arithmetic of the list computations of TrendAnalyzer. A       *)
(* natural number is a sequence of limbs, least significant first, without  *)
(* leading zero limbs; a double is NaN or a sign s, a significand m of      *)
(* exactly 53 bits and an exponent e, standing for s * m * 2^e, or zero    *)
(* with m = <<>>. The four operations of the machine round their exact      *)
(* result to the nearest double, ties to the even significand, as IEEE 754  *)
(* does; powers go through the C library. The magnitudes met here are far   *)
(* from overflow and from the subnormal range.                              *)

LimbBits == 15
LimbBase == 32768

RECURSIVE Pow2(_)
Pow2(k) == IF k = 0 THEN 1 ELSE 2 * Pow2(k - 1)

RECURSIVE BigTrim(_)
BigTrim(a) ==
    IF a # <<>> /\ a[Len(a)] = 0 THEN BigTrim(SubSeq(a, 1, Len(a) - 1)) ELSE a

Limb0(a) == IF a = <<>> THEN 0 ELSE a[1]
Rest(a) == IF a = <<>> THEN <<>> ELSE Tail(a)

RECURSIVE BigFromInt(_)
BigFromInt(n) == IF n = 0 THEN <<>> ELSE <<n % LimbBase>> \o BigFromInt(n \div LimbBase)

RECURSIVE BigAddCarry(_, _, _)
BigAddCarry(a, b, c) ==
    IF a = <<>> /\ b = <<>> THEN (IF c = 0 THEN <<>> ELSE <<c>>)
    ELSE <<(Limb0(a) + Limb0(b) + c) % LimbBase>>
         \o BigAddCarry(Rest(a), Rest(b), (Limb0(a) + Limb0(b) + c) \div LimbBase)

BigAdd(a, b) == BigAddCarry(a, b, 0)

\* a - b - c for a >= b + c, before trimming
RECURSIVE BigSubBorrow(_, _, _)
BigSubBorrow(a, b, c) ==
    IF a = <<>> THEN <<>>
    ELSE <<(a[1] - Limb0(b) - c + LimbBase) % LimbBase>>
         \o BigSubBorrow(Tail(a), Rest(b), IF a[1] - Limb0(b) - c < 0 THEN 1 ELSE 0)

BigSub(a, b) == BigTrim(BigSubBorrow(a, b, 0))

RECURSIVE BigCmpFrom(_, _, _)
BigCmpFrom(a, b, i) ==
    IF i = 0 THEN 0
    ELSE IF a[i] < b[i] THEN -1
    ELSE IF a[i] > b[i] THEN 1
    ELSE BigCmpFrom(a, b, i - 1)

\* -1, 0 or 1 as a is less than, equal to or greater than b
BigCmp(a, b) ==
    IF Len(a) < Len(b) THEN -1
    ELSE IF Len(a) > Len(b) THEN 1
    ELSE BigCmpFrom(a, b, Len(a))

\* a * d + c for one limb d
RECURSIVE BigMulLimb(_, _, _)
BigMulLimb(a, d, c) ==
    IF a = <<>> THEN (IF c = 0 THEN <<>> ELSE <<c>>)
    ELSE <<(a[1] * d + c) % LimbBase>> \o BigMulLimb(Tail(a), d, (a[1] * d + c) \div LimbBase)

\* a * LimbBase^k
BigShiftLimbs(a, k) == IF a = <<>> THEN <<>> ELSE [i \in 1..k |-> 0] \o a

RECURSIVE BigMul(_, _)
BigMul(a, b) ==
    IF a = <<>> \/ b = <<>> THEN <<>>
    ELSE BigAdd(BigTrim(BigMulLimb(a, b[1], 0)), BigShiftLimbs(BigMul(a, Tail(b)), 1))

\* a * 2^k
BigShl(a, k) ==
    BigShiftLimbs(BigTrim(BigMulLimb(a, Pow2(k % LimbBits), 0)), k \div LimbBits)

\* floor(a / 2^r) for r < LimbBits
BigShrBits(a, r) ==
    BigTrim([i \in 1..Len(a) |->
        a[i] \div Pow2(r)
        + (IF i < Len(a) THEN (a[i + 1] % Pow2(r)) * Pow2(LimbBits - r) ELSE 0)])

\* floor(a / 2^k)
BigShr(a, k) ==
    IF k \div LimbBits >= Len(a) THEN <<>>
    ELSE BigShrBits(SubSeq(a, k \div LimbBits + 1, Len(a)), k % LimbBits)

RECURSIVE BitsOf(_)
BitsOf(n) == IF n = 0 THEN 0 ELSE 1 + BitsOf(n \div 2)

BitLength(a) == IF a = <<>> THEN 0 ELSE LimbBits * (Len(a) - 1) + BitsOf(a[Len(a)])

BigOdd(a) == a # <<>> /\ a[1] % 2 = 1

FloatZero == [t |-> "float", s |-> 1, m |-> <<>>, e |-> 0]

IsFloatZero(x) == x.t = "float" /\ x.m = <<>>

\* the double of sign s, significand q of 53 bits or, after a carry, 54, exponent e
Packed(s, q, e) ==
    IF BitLength(q) > 53 THEN [t |-> "float", s |-> s, m |-> BigShr(q, 1), e |-> e + 1]
    ELSE [t |-> "float", s |-> s, m |-> q, e |-> e]

\* q * 2^e with a discarded part rem out of 2^k: to nearest, ties to even
RoundedUp(q, rem, k, sticky) ==
    \/ BigCmp(rem, BigShl(<<1>>, k - 1)) > 0
    \/ BigCmp(rem, BigShl(<<1>>, k - 1)) = 0 /\ (sticky \/ BigOdd(q))

RoundShifted(s, big, q, k, e, sticky) ==
    IF RoundedUp(q, BigSub(big, BigShl(q, k)), k, sticky)
    THEN Packed(s, BigAdd(q, <<1>>), e + k)
    ELSE Packed(s, q, e + k)

\* the double nearest to s * big * 2^e; sticky says the exact value is a little more
Round(s, big, e, sticky) ==
    IF big = <<>> THEN FloatZero
    ELSE IF BitLength(big) <= 53
    THEN [t |-> "float", s |-> s, m |-> BigShl(big, 53 - BitLength(big)),
          e |-> e - (53 - BitLength(big))]
    ELSE RoundShifted(s, big, BigShr(big, BitLength(big) - 53), BitLength(big) - 53,
                      e, sticky)

Directed(s, big, q, k, e, sticky, up) ==
    IF up /\ (sticky \/ BigSub(big, BigShl(q, k)) # <<>>)
    THEN Packed(s, BigAdd(q, <<1>>), e + k)
    ELSE Packed(s, q, e + k)

\* s * big * 2^e when it is a double, else the double next below it in magnitude
\* or, with up, the one next above
RoundToward(s, big, e, sticky, up) ==
    IF BitLength(big) <= 53 THEN Round(s, big, e, FALSE)
    ELSE Directed(s, big, BigShr(big, BitLength(big) - 53), BitLength(big) - 53,
                  e, sticky, up)

\* float(n) for an int n
FromInt(n) == Round(IF n < 0 THEN -1 ELSE 1, BigFromInt(Abs(n)), 0, FALSE)

FNeg(x) == IF x.t = "nan" \/ x.m = <<>> THEN x ELSE [x EXCEPT !.s = -x.s]

FAbs(x) == IF x.t = "nan" THEN x ELSE [x EXCEPT !.s = 1]

\* the sum of magnitudes a * 2^e and b * 2^e with signs sa and sb
AddAligned(sa, a, sb, b, e) ==
    IF sa = sb THEN Round(sa, BigAdd(a, b), e, FALSE)
    ELSE IF BigCmp(a, b) = 0 THEN FloatZero
    ELSE IF BigCmp(a, b) > 0 THEN Round(sa, BigSub(a, b), e, FALSE)
    ELSE Round(sb, BigSub(b, a), e, FALSE)

\* hi.e >= lo.e: an addend 64 binary places below the other cannot move the result
AddOrdered(hi, lo) ==
    IF hi.e - lo.e > 64 THEN hi
    ELSE AddAligned(hi.s, BigShl(hi.m, hi.e - lo.e), lo.s, lo.m, lo.e)

\* x + y
FAdd(x, y) ==
    IF x.t = "nan" \/ y.t = "nan" THEN NaN
    ELSE IF x.m = <<>> THEN y
    ELSE IF y.m = <<>> THEN x
    ELSE IF x.e >= y.e THEN AddOrdered(x, y) ELSE AddOrdered(y, x)

\* x - y
FSub(x, y) == FAdd(x, FNeg(y))

\* x ** 2: the C library's pow is accurate to within one unit in the last place,
\* so the result is the exact square when that is a double and else either of the
\* two doubles around it
PowTwo(x) ==
    IF x.t = "nan" THEN {NaN}
    ELSE IF x.m = <<>> THEN {FloatZero}
    ELSE {RoundToward(1, BigMul(x.m, x.m), 2 * x.e, FALSE, up) : up \in BOOLEAN}

\* the largest limb g + h, h < 2^(i+1), with d * (g + h) <= r
RECURSIVE QuotientLimb(_, _, _, _)
QuotientLimb(r, d, g, i) ==
    IF i < 0 THEN g
    ELSE IF BigCmp(BigTrim(BigMulLimb(d, g + Pow2(i), 0)), r) <= 0
    THEN QuotientLimb(r, d, g + Pow2(i), i - 1)
    ELSE QuotientLimb(r, d, g, i - 1)

\* long division, r < d * LimbBase: k more limbs of the quotient, [q, r]
RECURSIVE DivLimbs(_, _, _, _)
DivAfter(r, d, k, q, g) ==
    DivLimbs(BigShiftLimbs(BigSub(r, BigTrim(BigMulLimb(d, g, 0))), 1), d, k - 1,
             BigTrim(<<g>> \o q))

DivLimbs(r, d, k, q) ==
    IF k = 0 THEN [q |-> q, r |-> r]
    ELSE DivAfter(r, d, k, q, QuotientLimb(r, d, 0, LimbBits - 1))

DivRounded(s, qr, e) == Round(s, qr.q, e, qr.r # <<>>)

\* x / y for y not zero: the quotient of the significands to 60 binary places
FDiv(x, y) ==
    IF x.t = "nan" \/ y.t = "nan" THEN NaN
    ELSE IF x.m = <<>> THEN FloatZero
    ELSE DivRounded(x.s * y.s, DivLimbs(x.m, y.m, 5, <<>>), x.e - y.e - 60)

\* the integer square root of big: the bits from i down to j added to r
RECURSIVE SqrtBits(_, _, _, _)
SqrtBits(big, r, i, j) ==
    IF i < j THEN r
    ELSE IF BigCmp(BigMul(BigAdd(r, BigShl(<<1>>, i)), BigAdd(r, BigShl(<<1>>, i))), big) <= 0
    THEN SqrtBits(big, BigAdd(r, BigShl(<<1>>, i)), i - 1, j)
    ELSE SqrtBits(big, r, i - 1, j)

\* the integer square root of big < 2^114
BigSqrt(big) ==
    SqrtBits(big, SqrtBits(big, SqrtBits(big, SqrtBits(big, <<>>, 56, 45), 44, 30), 29, 15),
             14, 0)

SqrtAround(big, r, e) ==
    {RoundToward(1, r, e, BigMul(r, r) # big, up) : up \in BOOLEAN}

\* x ** 0.5 for x >= 0, by pow again: the exact root or either double around it
PowHalf(x) ==
    IF x.t = "nan" THEN {NaN}
    ELSE IF x.m = <<>> THEN {FloatZero}
    ELSE IF x.e % 2 = 0
    THEN SqrtAround(BigShl(x.m, 58), BigSqrt(BigShl(x.m, 58)), (x.e - 58) \div 2)
    ELSE SqrtAround(BigShl(x.m, 59), BigSqrt(BigShl(x.m, 59)), (x.e - 59) \div 2)

\* x > y: False when either is NaN
FGreater(x, y) ==
    /\ x.t # "nan"
    /\ y.t # "nan"
    /\ FSub(x, y).m # <<>>
    /\ FSub(x, y).s = 1

\* the double a value cell holds: the one nearest to n/10
FloatOf(c) == IF c.t = "nan" THEN NaN ELSE FDiv(FromInt(c.v), FromInt(10))

\* sum(xs): the int 0, then each item added in turn
RECURSIVE FSumFrom(_, _)
FSumFrom(acc, xs) == IF xs = <<>> THEN acc ELSE FSumFrom(FAdd(acc, xs[1]), Tail(xs))

FSum(xs) == FSumFrom(FloatZero, xs)

----------------------------------------------------------------------------
(* utils.py: DataUtils on one table. A value cell Num(n) is the reading    *)
(* n/10; a timestamp cell Ts(n) is n minutes after the first instant of    *)
(* FirstYear. The aggregates pandas computes are kept as exact fractions:  *)
(* the rounding of its double arithmetic is not modelled here.             *)

RECURSIVE GCD(_, _)
GCD(a, b) == IF b = 0 THEN a ELSE GCD(b, a % b)

\* the fraction p/q in lowest terms, q > 0
Frac(p, q) ==
    LET g == GCD(Abs(p), Abs(q))
        s == IF q < 0 THEN -1 ELSE 1
    IN  [t |-> "frac", p |-> s * (p \div g), q |-> s * (q \div g)]

FracAdd(a, b) == Frac(a.p * b.q + b.p * a.q, a.q * b.q)
FracSub(a, b) == Frac(a.p * b.q - b.p * a.q, a.q * b.q)
FracMul(a, b) == Frac(a.p * b.p, a.q * b.q)
FracDiv(a, b) == Frac(a.p * b.q, a.q * b.p)
FracLess(a, b) == a.p * b.q < b.p * a.q

RECURSIVE FracSum(_)
FracSum(s) == IF s = <<>> THEN Frac(0, 1) ELSE FracAdd(s[1], FracSum(Tail(s)))

\* the square root of a fraction: a fraction when it has one, else kept as a root
FracRoot(f) ==
    IF \E a \in 0..f.p, b \in 1..f.q : a * a = f.p /\ b * b = f.q
    THEN LET a == CHOOSE k \in 0..f.p : k * k = f.p
             b == CHOOSE k \in 1..f.q : k * k = f.q
         IN  Frac(a, b)
    ELSE [t |-> "root", of |-> f]

\* the reading a value cell holds
Reading(c) == Frac(c.v, 10)

\* df[column] as a list of cells
Column(df, column) == [i \in 1..Len(df.rows) |-> df.rows[i][column]]

IsPresent(c) == c.t # "nan"

\* the readings of a column, missing values skipped as the pandas aggregates skip them
Present(cells) ==
    LET kept == SelectSeq(cells, IsPresent)
    IN  [i \in 1..Len(kept) |-> Reading(kept[i])]

\* Series.min()
SeriesMin(xs) ==
    IF xs = <<>> THEN NaN
    ELSE CHOOSE x \in Range(xs) : \A y \in Range(xs) : ~FracLess(y, x)

\* Series.max()
SeriesMax(xs) ==
    IF xs = <<>> THEN NaN
    ELSE CHOOSE x \in Range(xs) : \A y \in Range(xs) : ~FracLess(x, y)

\* Series.mean()
SeriesMean(xs) ==
    IF xs = <<>> THEN NaN ELSE FracDiv(FracSum(xs), Frac(Len(xs), 1))

\* the squared deviations from the mean
SquaredDeviations(xs, avg) ==
    [i \in 1..Len(xs) |-> FracMul(FracSub(xs[i], avg), FracSub(xs[i], avg))]

\* Series.var(ddof): the squared deviations summed and divided by count - ddof
SeriesVar(xs, ddof) ==
    IF Len(xs) <= ddof THEN NaN
    ELSE FracDiv(FracSum(SquaredDeviations(xs, SeriesMean(xs))),
                 Frac(Len(xs) - ddof, 1))

\* Series.std(): pandas' default ddof is 1
SeriesStd(xs) ==
    IF ~IsPresent(SeriesVar(xs, 1)) THEN NaN ELSE FracRoot(SeriesVar(xs, 1))

\* the earliest and the latest of a column of timestamps
TsMin(cells) ==
    IF cells = <<>> THEN NaN
    ELSE CHOOSE c \in Range(cells) : \A d \in Range(cells) : c.v <= d.v

TsMax(cells) ==
    IF cells = <<>> THEN NaN
    ELSE CHOOSE c \in Range(cells) : \A d \in Range(cells) : c.v >= d.v

\* validation that lets a table without rows through
validate_dataframe_rows_unchecked(df, required_columns) ==
    /\ ~IsNone(df)
    /\ \A c \in Range(required_columns) : c \in Range(df.df.cols)

\* lines 25-33
validate_dataframe(df, required_columns) ==
    IF IsNone(df) \/ df.df.rows = <<>> \/ df.df.cols = <<>> THEN FALSE
    ELSE \A c \in Range(required_columns) : c \in Range(df.df.cols)

\* lines 49-56: the statistics of the value column
BasicStats(cells) ==
    [count |-> Len(cells),
     min |-> SeriesMin(Present(cells)),
     max |-> SeriesMax(Present(cells)),
     mean |-> SeriesMean(Present(cells)),
     std |-> IF Len(cells) > 1 THEN SeriesStd(Present(cells)) ELSE Frac(0, 1)]

\* lines 58-64: the date_range entry
WithDateRange(stats, converted) ==
    [k \in DOMAIN stats \cup {"date_range"} |->
        IF k = "date_range"
        THEN [start |-> TsMin(Column(converted, "timestamp")),
              end |-> TsMax(Column(converted, "timestamp"))]
        ELSE stats[k]]

\* lines 44-66: the dict returned, or the exception of the timestamp conversion
calculate_basic_stats(df) ==
    IF ~validate_dataframe(df, <<"value">>) THEN [error |-> "Invalid data"]
    ELSE IF "timestamp" \notin Range(df.df.cols) THEN BasicStats(Column(df.df, "value"))
    ELSE IF IsRaise(safe_convert_datetime(df.df)) THEN Raise("ValueError")
    ELSE WithDateRange(BasicStats(Column(df.df, "value")),
                       safe_convert_datetime(df.df).df)

\* the instant timestamps are counted from
Epoch == datetime(FirstYear, 1, 1, 0)

\* the timestamp cell of a date
TsOf(d) == Ts((toordinal(d) - toordinal(Epoch)) * 1440 + d.minute)

\* the date of a timestamp cell
DateOf(c) == fromordinal(FirstYear, toordinal(Epoch) + c.v \div 1440, c.v % 1440)

----------------------------------------------------------------------------
(* utils.py: TrendAnalyzer. The lists are Python lists of doubles; the     *)
(* monthly averages of pandas are doubles summed in row order.              *)

\* a function's return value, where it may raise instead
Returned(v) == [tag |-> "return", v |-> v]

\* df[value_column].tolist()
tolist(cells) == [i \in 1..Len(cells) |-> FloatOf(cells[i])]

\* sum(values) / len(values) for a list that is not empty
FMean(values) == FDiv(FSum(values), FromInt(Len(values)))

\* line 197
TrendOf(first_half, second_half) ==
    IF FGreater(second_half, first_half) THEN "increasing" ELSE "decreasing"

\* lines 189-197
analyze_trend_direction(values) ==
    IF Len(values) < 2 THEN "insufficient_data"
    ELSE TrendOf(FMean(SubSeq(values, 1, Len(values) \div 2)),
                 FMean(SubSeq(values, Len(values) \div 2 + 1, Len(values))))

\* sum((x - mean_val) ** 2 for x in values): the sums the items from i on can
\* bring the partial sums to
RECURSIVE SquareSums(_, _, _, _)
SquareSums(values, mean_val, i, sums) ==
    IF i > Len(values) THEN sums
    ELSE SquareSums(values, mean_val, i + 1,
                    {FAdd(acc, sq) : acc \in sums, sq \in PowTwo(FSub(values[i], mean_val))})

\* lines 231-233 for each variance
StdOverMean(variances, mean_val) ==
    {FDiv(std_dev, FAbs(mean_val)) :
        std_dev \in UNION {PowHalf(variance) : variance \in variances}}

\* lines 227-233, mean_val computed
VolatilityAbout(values, mean_val) ==
    IF IsFloatZero(mean_val) THEN {FloatZero}
    ELSE StdOverMean({FDiv(s, FromInt(Len(values))) :
                         s \in SquareSums(values, mean_val, 1, {FloatZero})},
                     mean_val)

\* lines 222-233: the values the call can return
calculate_volatility(values) ==
    IF Len(values) < 2 THEN {FloatZero}
    ELSE VolatilityAbout(values, FMean(values))

\* df_datetime['timestamp'].dt.month of a row
MonthOfRow(row) == DateOf(row.timestamp).month

\* the values present in the rows of month m, in row order
RECURSIVE MonthReadings(_, _)
MonthReadings(rows, m) ==
    IF rows = <<>> THEN <<>>
    ELSE (IF MonthOfRow(rows[1]) = m /\ IsPresent(rows[1].value)
          THEN <<FloatOf(rows[1].value)>> ELSE <<>>)
         \o MonthReadings(Tail(rows), m)

\* the mean of a group: NaN when no value is present
GroupMean(values) == IF values = <<>> THEN NaN ELSE FMean(values)

\* groupby('month')[value_column].mean(): one entry per month met, by month
RECURSIVE MonthlyAvgFrom(_, _)
MonthlyAvgFrom(rows, m) ==
    IF m > 12 THEN <<>>
    ELSE (IF \E i \in 1..Len(rows) : MonthOfRow(rows[i]) = m
          THEN <<[month |-> m, avg |-> GroupMean(MonthReadings(rows, m))]>>
          ELSE <<>>)
         \o MonthlyAvgFrom(rows, m + 1)

monthly_avg(df) == MonthlyAvgFrom(df.rows, 1)

\* the first entry from i on that no later entry beats; 0 when every avg is NaN
RECURSIVE IdxFrom(_, _, _, _)
IdxFrom(avgs, i, best, wantMax) ==
    IF i > Len(avgs) THEN best
    ELSE IF avgs[i].avg.t = "nan" THEN IdxFrom(avgs, i + 1, best, wantMax)
    ELSE IF best = 0 THEN IdxFrom(avgs, i + 1, i, wantMax)
    ELSE IF wantMax /\ FGreater(avgs[i].avg, avgs[best].avg)
    THEN IdxFrom(avgs, i + 1, i, wantMax)
    ELSE IF ~wantMax /\ FGreater(avgs[best].avg, avgs[i].avg)
    THEN IdxFrom(avgs, i + 1, i, wantMax)
    ELSE IdxFrom(avgs, i + 1, best, wantMax)

\* int(monthly_avg.idxmax()), int(monthly_avg.idxmin()): with no value present
\* there is no label to convert
IntOfIdx(avgs, i) == IF i = 0 THEN Raise("ValueError") ELSE Returned(avgs[i].month)

\* lines 199-208
find_peak_period(df) ==
    IF ~validate_dataframe(df, <<"value", "timestamp">>) THEN Returned(1)
    ELSE IF IsRaise(safe_convert_datetime(df.df)) THEN Raise("ValueError")
    ELSE IntOfIdx(monthly_avg(safe_convert_datetime(df.df).df),
                  IdxFrom(monthly_avg(safe_convert_datetime(df.df).df), 1, 0, TRUE))

\* lines 210-219
find_low_period(df) ==
    IF ~validate_dataframe(df, <<"value", "timestamp">>) THEN Returned(1)
    ELSE IF IsRaise(safe_convert_datetime(df.df)) THEN Raise("ValueError")
    ELSE IntOfIdx(monthly_avg(safe_convert_datetime(df.df).df),
                  IdxFrom(monthly_avg(safe_convert_datetime(df.df).df), 1, 0, FALSE))

\* lines 243-248: the dicts, or the exception one of the entries raised
TrendDict(trend_direction, peak_month, low_month, volatilities) ==
    IF IsRaise(peak_month) THEN {peak_month}
    ELSE IF IsRaise(low_month) THEN {low_month}
    ELSE {[trend_direction |-> trend_direction, peak_month |-> peak_month.v,
           low_month |-> low_month.v, volatility |-> volatility] :
             volatility \in volatilities}

\* lines 235-248: what the call can return
analyze_dataset_trends(df) ==
    IF ~validate_dataframe(df, <<"value">>)
    THEN {[error |-> "Invalid data for trend analysis"]}
    ELSE TrendDict(analyze_trend_direction(tolist(Column(df.df, "value"))),
                   find_peak_period(df), find_low_period(df),
                   calculate_volatility(tolist(Column(df.df, "value"))))

----------------------------------------------------------------------------
(* The tables the functions of utils.py are called on: rows in ascending    *)
(* order of timestamp, as the fetcher leaves them; values may be missing.   *)
(* Only the columns these functions read are kept.                          *)

\* the i-th timestamp of a table: days of one month; January and July of
\* successive years; July, December, then the months of the next year
Stamp(pattern, i) ==
    CASE pattern = "days" -> TsOf(datetime(FirstYear, 1, i, 0))
      [] pattern = "halfyears" ->
            TsOf(datetime(FirstYear + (i - 1) \div 2, 1 + 6 * ((i - 1) % 2), 1, 0))
      [] pattern = "yearend" ->
            IF i = 1 THEN TsOf(datetime(FirstYear, 7, 1, 0))
            ELSE IF i = 2 THEN TsOf(datetime(FirstYear, 12, 1, 0))
            ELSE TsOf(datetime(FirstYear + 1, i - 2, 1, 0))

\* the column sets and timestamp patterns drawn
TableShapes ==
    {[cols |-> <<"timestamp", "value">>, pattern |-> p] :
        p \in {"days", "halfyears", "yearend"}}
    \cup {[cols |-> <<"value">>, pattern |-> "days"],
          [cols |-> <<"timestamp">>, pattern |-> "days"]}

\* the values drawn: missing, -1.0, 0.1 and 1.0
TableValues == {NaN, Num(-10), Num(1), Num(10)}

\* the series the specification names, and five readings of 0.1
ExampleSeries ==
    {<<Num(10), Num(20), Num(30), Num(40)>>,
     <<Num(10), Num(10), Num(10), Num(50), Num(50), Num(50)>>,
     <<Num(30), Num(30), Num(30)>>,
     <<Num(1), Num(1), Num(1), Num(1), Num(1)>>}

ValueSeries ==
    UNION {[1..n -> TableValues] : n \in 0..MaxRows} \cup ExampleSeries

Table(shape, values) ==
    DataFrame(shape.cols,
        [i \in 1..Len(values) |->
            [c \in Range(shape.cols) |->
                IF c = "value" THEN values[i] ELSE Stamp(shape.pattern, i)]])

Tables ==
    {None} \cup {Some(Table(shape, values)) : shape \in TableShapes, values \in ValueSeries}

InitUtils ==
    /\ ctimeIsCreation = FALSE
    /\ now = 0
    /\ files = EmptyDir
    /\ FetchIdle
    /\ lastSaved = NoSaves
    /\ cacheOp = NoCacheOp
    /\ nameArgs = NoNames
    /\ call \in {[op |-> "utils", fn |-> "none", df |-> df, ret |-> None] : df \in Tables}

\* stats = DataUtils.calculate_basic_stats(df)
CallCalculateBasicStats ==
    /\ call.op = "utils"
    /\ call.fn = "none"
    /\ call' = [call EXCEPT !.fn = "calculate_basic_stats",
                            !.ret = calculate_basic_stats(call.df)]
    /\ UNCHANGED <<ctimeIsCreation, now, files, fetchVars, lastSaved, cacheOp, nameArgs>>

\* trends = TrendAnalyzer.analyze_dataset_trends(df)
CallAnalyzeDatasetTrends ==
    /\ call.op = "utils"
    /\ call.fn = "none"
    /\ \E ret \in analyze_dataset_trends(call.df) :
        call' = [call EXCEPT !.fn = "analyze_dataset_trends", !.ret = ret]
    /\ UNCHANGED <<ctimeIsCreation, now, files, fetchVars, lastSaved, cacheOp, nameArgs>>

\* TrendAnalyzer.analyze_trend_direction(values) on the values of the table
CallAnalyzeTrendDirection ==
    /\ call.op = "utils"
    /\ call.fn = "none"
    /\ ~IsNone(call.df)
    /\ "value" \in Range(call.df.df.cols)
    /\ call' = [call EXCEPT !.fn = "analyze_trend_direction",
                            !.ret = analyze_trend_direction(
                                        tolist(Column(call.df.df, "value")))]
    /\ UNCHANGED <<ctimeIsCreation, now, files, fetchVars, lastSaved, cacheOp, nameArgs>>

\* TrendAnalyzer.calculate_volatility(values) on the values of the table
CallCalculateVolatility ==
    /\ call.op = "utils"
    /\ call.fn = "none"
    /\ ~IsNone(call.df)
    /\ "value" \in Range(call.df.df.cols)
    /\ \E ret \in calculate_volatility(tolist(Column(call.df.df, "value"))) :
        call' = [call EXCEPT !.fn = "calculate_volatility", !.ret = ret]
    /\ UNCHANGED <<ctimeIsCreation, now, files, fetchVars, lastSaved, cacheOp, nameArgs>>

NextUtils ==
    \/ CallCalculateBasicStats
    \/ CallAnalyzeDatasetTrends
    \/ CallAnalyzeTrendDirection
    \/ CallCalculateVolatility

SpecUtils == InitUtils /\ [][NextUtils]_vars

----------------------------------------------------------------------------
(* The claims *)

\* the table a cache file holds, as _load_from_cache reads it back
EntryFrame(fs, fn) ==
    IF fn \notin DOMAIN fs THEN DataFrame(<<>>, <<>>)
    ELSE LET r == read_csv(fs[fn].content)
         IN  IF IsRaise(r) THEN DataFrame(<<>>, <<>>)
             ELSE IF IsRaise(safe_convert_datetime(r.df)) THEN DataFrame(<<>>, <<>>)
             ELSE safe_convert_datetime(r.df).df

\* its rows, the bookkeeping columns dropped
CacheRows(fs, fn) == WithoutBookkeeping(EntryFrame(fs, fn))

StepName == get_cache_filename(DEFAULT_NETWORK, DATASETS[lastStep.i].key, metric)

\* C1: once an iteration has run under a metric name that is no DataMetric
\* member, fetch_data has raised: the error is not turned into an omitted dataset.
C1_UnknownMetricRaises ==
    (~ApiCalled(metric) /\ lastStep.i > 0) => raised # NoException

\* C2: after an iteration whose cache load was a hit, results holds the table of
\* the cache file under the dataset key and no API call was made for the dataset.
C2_CacheHitServed ==
    lastStep.read = "hit" =>
        /\ DATASETS[lastStep.i].key \in DOMAIN results
        /\ results[DATASETS[lastStep.i].key] = EntryFrame(files, StepName)
        /\ apiCalls[lastStep.i] = 0

C2_Witness ==
    /\ pc = "done"
    /\ lastStep.read = "hit"
    /\ lastStep.i = 3
    /\ DOMAIN results = DatasetKeys

\* C3: when fetch_data has returned, nothing was raised, every dataset was
\* processed, and results holds exactly the datasets that were served from the
\* cache or for which the API gave a response that normalizes to a table.
C3_FailureIsPerDataset ==
    pc = "done" =>
        /\ raised = NoException
        /\ \A i \in DatasetIdx :
            /\ met[i] \notin {"pending", "raised"}
            /\ DATASETS[i].key \in DOMAIN results
                   <=> met[i] \in {"hit", "saved", "unsaved"}

C3_Witness ==
    /\ pc = "done"
    /\ ~use_cache
    /\ met[1] = "saved" /\ met[2] = "nothing" /\ met[3] = "saved"
    /\ DOMAIN results = {DATASETS[1].key, DATASETS[3].key}

C5_OneCallPerDataset ==
    ApiCalled(metric) =>
        \A i \in DatasetIdx :
            /\ apiCalls[i] <= 1
            /\ ~use_cache => cacheReads[i] = 0
            /\ (met[i] # "pending" /\ (~use_cache \/ met[i] # "hit")) => apiCalls[i] = 1

C5_Witness ==
    /\ pc = "done"
    /\ use_cache
    /\ met[1] = "hit" /\ met[2] = "nothing" /\ met[3] = "saved"
    /\ apiCalls = <<0, 1, 1>>

C7_FreshnessBoundary ==
    (cacheOp.op = "load" /\ NameOf(cacheOp.key) \in DOMAIN files) =>
        LET age == cacheOp.at - files[NameOf(cacheOp.key)].ctime
        IN  /\ age > CACHE_EXPIRY_MINUTES => IsNone(cacheOp.ret)
            /\ (age <= CACHE_EXPIRY_MINUTES /\ cacheOp.ok) => IsSome(cacheOp.ret)

\* an entry aged exactly the expiry is returned, its fetch_timestamp being
\* later than its ctime
C7_Witness ==
    /\ cacheOp.op = "load"
    /\ NameOf(cacheOp.key) \in DOMAIN files
    /\ cacheOp.at - files[NameOf(cacheOp.key)].ctime = CACHE_EXPIRY_MINUTES
    /\ IsSome(cacheOp.ret)
    /\ lastSaved[cacheOp.key].t > files[NameOf(cacheOp.key)].ctime

\* C8: after an iteration that found the cache entry missing, unreadable or
\* unparsable, nothing was raised, the load counted as a miss and the API was
\* called once for the dataset.
C8_LoadFailureIsMiss ==
    (lastStep.i > 0 /\ lastStep.entry \in {"absent", "unreadable", "corrupt"}) =>
        /\ raised = NoException
        /\ lastStep.read = "miss"
        /\ ApiCalled(metric) =>
               (apiCalls[lastStep.i] = 1 /\ lastStep.api # "not_called")

C8_Witness ==
    /\ lastStep.entry = "corrupt"
    /\ lastStep.api = "good"
    /\ lastStep.save = "ok"
    /\ DATASETS[lastStep.i].key \in DOMAIN results

C10_FilenameInjective ==
    (nameArgs.names # <<>> /\ nameArgs.a # nameArgs.b) =>
        nameArgs.names[1] # nameArgs.names[2]

\* the month a date lies in, counted from year 0
MonthIndex(d) == d.year * 12 + d.month - 1

\* the days of the months i .. j-1
RECURSIVE DaysOfMonths(_, _)
DaysOfMonths(i, j) ==
    IF i >= j THEN 0
    ELSE DaysInMonth(i \div 12, (i % 12) + 1) + DaysOfMonths(i + 1, j)

\* the calendar days from date a to a later date b
DaysBetween(a, b) == DaysOfMonths(MonthIndex(a), MonthIndex(b)) + b.day - a.day

RangeReturned == call.op = "range" /\ call.done

\* C11: for a day-based spec with lookback D the range ends at the reference
\* instant and starts D calendar days before it, at the same time of day.
C11_DayRange ==
    (RangeReturned /\ ~IsMonthly(call.config)) =>
        /\ call.ret.tag = "range"
        /\ call.ret.end = call.N
        /\ MonthIndex(call.ret.start) <= MonthIndex(call.ret.end)
        /\ DaysBetween(call.ret.start, call.ret.end) = call.config.days_back
        /\ call.ret.start.minute = call.ret.end.minute

\* 30 days back from 15 March of a leap year, across 29 February
C11_Witness ==
    /\ RangeReturned
    /\ ~IsMonthly(call.config)
    /\ call.config.days_back = 30
    /\ call.N = datetime(2024, 3, 15, 615)
    /\ call.ret.start = datetime(2024, 2, 14, 615)

\* C12: for a month-based spec that excludes the current month, the range ends
\* at midnight on the 1st of the month before the reference instant's month:
\* month M-1 of year Y when M > 1, December of year Y-1 when M = 1.
C12_MonthlyEnd ==
    (RangeReturned /\ IsMonthly(call.config)) =>
        /\ call.ret.tag = "range"
        /\ call.ret.end.day = 1
        /\ call.ret.end.minute = 0
        /\ call.N.month > 1 =>
               (call.ret.end.year = call.N.year /\ call.ret.end.month = call.N.month - 1)
        /\ call.N.month = 1 =>
               (call.ret.end.year = call.N.year - 1 /\ call.ret.end.month = 12)

C12_Witness ==
    /\ RangeReturned
    /\ IsMonthly(call.config)
    /\ call.N = datetime(2024, 1, 15, 615)
    /\ call.ret.end = datetime(2023, 12, 1, 0)

\* C13: for a month-based spec the range starts at midnight on the 1st of a
\* month 1..12 that lies exactly months_back calendar months before the month
\* the range ends in.
C13_MonthlyStart ==
    (RangeReturned /\ IsMonthly(call.config)) =>
        /\ call.ret.tag = "range"
        /\ call.ret.start.day = 1
        /\ call.ret.start.minute = 0
        /\ call.ret.start.month \in 1..12
        /\ call.ret.end.year * 12 + call.ret.end.month
             - (call.ret.start.year * 12 + call.ret.start.month) = call.config.months_back

\* the month index decodes to 0: 23 months before November is December
C13_Witness ==
    /\ RangeReturned
    /\ IsMonthly(call.config)
    /\ call.config.months_back = 23
    /\ call.ret.end.month = 11
    /\ call.ret.start.month = 12
    /\ call.ret.start.year = call.ret.end.year - 2

Normalized == call.op = "normalize" /\ call.done

RECURSIVE SumSeq(_)
SumSeq(q) == IF Len(q) = 0 THEN 0 ELSE Head(q) + SumSeq(Tail(q))

\* the points of a response, over all series and all results
TotalPoints(response) ==
    IF response = NoResponse THEN 0
    ELSE SumSeq([k \in 1..Len(response.data) |->
                    SumSeq([j \in 1..Len(response.data[k].results) |->
                               Len(response.data[k].results[j].data)])])

\* where the points of a response are: <<series, result, point>>
Positions(response) ==
    {<<k, j, i>> \in (1..Len(response.data)) \X ResultIdx \X (1..MaxPoints + 1) :
        /\ j <= Len(response.data[k].results)
        /\ i <= Len(response.data[k].results[j].data)}

\* the row the claim asks for the point at a position
ExpectedRow(response, config, pos) ==
    LET series == response.data[pos[1]]
        point == series.results[pos[2]].data[pos[3]]
    IN  [timestamp |-> point.root[1],
         value     |-> point.root[2],
         metric    |-> Str(series.metric),
         unit      |-> Str(series.unit),
         interval  |-> Str(config.interval),
         network   |-> Str(series.network_code)]

\* C14: the normalizer returns None, no frame and no exception, for a missing
\* response, a response without series and a response without any point.
C14_NothingIsNone ==
    (Normalized /\ TotalPoints(call.response) = 0) => IsNone(call.ret)

\* two series of two results each, none holding a point
C14_Witness ==
    /\ Normalized
    /\ call.response # NoResponse
    /\ Len(call.response.data) = 2
    /\ \A k \in 1..2 : Len(call.response.data[k].results) = 2
    /\ TotalPoints(call.response) = 0
    /\ IsNone(call.ret)

\* C15: for a response with at least one point the normalizer returns a table
\* with as many rows as the response has points, and every row the claim asks
\* for occurs in it as often as the points that ask for it.
C15_OneRowPerPoint ==
    (Normalized /\ TotalPoints(call.response) >= 1) =>
        /\ IsSome(call.ret)
        /\ Len(call.ret.df.rows) = TotalPoints(call.response)
        /\ \A pos \in Positions(call.response) :
            LET e == ExpectedRow(call.response, call.config, pos)
            IN  Cardinality({i \in 1..Len(call.ret.df.rows) : call.ret.df.rows[i] = e})
                  = Cardinality({q \in Positions(call.response) :
                                    ExpectedRow(call.response, call.config, q) = e})

\* three points spread over two series and the second result of a series
C15_Witness ==
    /\ Normalized
    /\ TotalPoints(call.response) = 3
    /\ Len(call.response.data) = 2
    /\ \A k \in 1..2 : Len(call.response.data[k].results) = 2
    /\ Len(call.response.data[1].results[2].data) >= 1
    /\ Len(call.response.data[2].results[1].data) >= 1
    /\ IsSome(call.ret)
    /\ Len(call.ret.df.rows) = 3

\* C16: every table the normalizer returns has its timestamps in
\* non-decreasing row order.
C16_SortedByTimestamp ==
    (Normalized /\ IsSome(call.ret)) =>
        \A i, j \in 1..Len(call.ret.df.rows) :
            i < j => call.ret.df.rows[i].timestamp.v <= call.ret.df.rows[j].timestamp.v

\* the later instant comes first in the response, in the first series
C16_Witness ==
    /\ Normalized
    /\ IsSome(call.ret)
    /\ Len(call.response.data) = 2
    /\ \A k \in 1..2 : Len(call.response.data[k].results) = 1
    /\ Len(call.response.data[1].results[1].data) = 1
    /\ call.response.data[1].results[1].data[1].root[1] = Ts(5)
    /\ Len(call.response.data[2].results[1].data) = 1
    /\ call.response.data[2].results[1].data[1].root[1] = Ts(0)
    /\ call.ret.df.rows[1].timestamp = Ts(0)

\* C17: no two rows of a table the normalizer returns share a timestamp.
C17_UniqueTimestamps ==
    (Normalized /\ IsSome(call.ret)) =>
        \A i, j \in 1..Len(call.ret.df.rows) :
            i # j => call.ret.df.rows[i].timestamp # call.ret.df.rows[j].timestamp

\* C18: a loop iteration whose API response holds a point that cannot be
\* unpacked, or a timestamp that cannot be parsed, adds nothing to results,
\* leaves the dataset out of it, writes nothing to the cache and raises nothing.
C18_MalformedYieldsNothing ==
    [][(/\ pc = "loop"
        /\ iterations' = iterations + 1
        /\ lastStep'.api \in {"malformed", "bad_timestamp"})
          => /\ results' = results
             /\ DATASETS[idx].key \notin DOMAIN results'
             /\ files' = files
             /\ lastStep'.save = "not_tried"
             /\ raised' = NoException]_vars

\* the second dataset's response has a malformed point beside a well-formed
\* one: the first dataset is in results, the second is not and has no file
C18_Witness ==
    /\ lastStep.i = 2
    /\ lastStep.api = "malformed"
    /\ DATASETS[1].key \in DOMAIN results
    /\ DATASETS[2].key \notin DOMAIN results
    /\ CacheName(2, metric) \notin DOMAIN files

BothReturned == call.op = "both" /\ call.done

\* the datasets of a pass for which the API gave a table
Fetched(envs) == {DATASETS[i].key : i \in {j \in DatasetIdx : Normalizable(envs[j].api)}}

\* C19: the market-value mapping fetch_power_and_market_data returns is the
\* mapping a market pass on its own returns from the directory found at the
\* start, whatever the power pass met and wrote; without the cache it holds
\* exactly the datasets the API gave a market table for, and so does the power
\* mapping for the power tables.
C19_IndependentPasses ==
    BothReturned =>
        /\ call.market_value =
               fetch_data(call.before, call.tm, DEFAULT_NETWORK, s_MARKET_VALUE,
                          call.use_cache, call.envM).results
        /\ ~call.use_cache =>
               /\ DOMAIN call.market_value = Fetched(call.envM)
               /\ DOMAIN call.power = Fetched(call.envP)

\* the power pass fails at every dataset, the market pass at none
C19_Witness ==
    /\ BothReturned
    /\ DOMAIN call.power = {}
    /\ DOMAIN call.market_value = DatasetKeys
    /\ Fetched(call.envP) = {}

\* main has both mappings and is past the check of line 32
MainPastCheck == call.op = "main" /\ call.fetched /\ call.pc # "check"

NothingFetched == DOMAIN call.power_data = {} /\ DOMAIN call.market_data = {}

\* the part of C20 about an empty fetch: the error is the last thing printed,
\* the run has ended, and neither plot nor report generation was started
EmptyFetchEndsRun ==
    (MainPastCheck /\ NothingFetched) =>
        /\ call.pc = "ended"
        /\ call.out[Len(call.out)] = "DATA_FETCH_ERROR"
        /\ call.plots = "not_started"
        /\ call.report = "not_started"

\* C20 as claimed: after an empty fetch the run reports the error and ends
\* without plots or report; after any other fetch the run has, when it ends,
\* started plot generation and report generation.
C20_EmptyEndsElseBothRun ==
    /\ EmptyFetchEndsRun
    /\ (MainPastCheck /\ ~NothingFetched /\ call.pc = "ended") =>
           /\ call.plots # "not_started"
           /\ call.report # "not_started"

\* C20 as amended: after any other fetch the data-fetch error is not printed
\* and plot generation is started; report generation is started when plot
\* generation has returned, and not at all when it raised.
C20_EmptyEndsElsePlotsRun ==
    /\ EmptyFetchEndsRun
    /\ (MainPastCheck /\ ~NothingFetched) =>
           /\ \A i \in 1..Len(call.out) : call.out[i] # "DATA_FETCH_ERROR"
           /\ call.pc = "ended" =>
                  /\ call.plots \in {"returned", "raised"}
                  /\ call.plots = "returned" => call.report # "not_started"
                  /\ call.plots = "raised" => call.report = "not_started"

\* both passes brought nothing: the error is printed and the run is over
C20_Witness ==
    /\ MainPastCheck
    /\ NothingFetched
    /\ call.pc = "ended"
    /\ call.out = <<"fetching_data", "DATA_FETCH_ERROR">>

\* C28: in a use_cache pass, a loop iteration that finds the dataset's entry
\* older than the expiry and whose API fetch gives no table leaves the dataset
\* out of results and leaves the directory, the expired entry included, as it was.
C28_StaleNeverServed ==
    [][(/\ pc = "loop"
        /\ iterations' = iterations + 1
        /\ use_cache
        /\ StepName' \in DOMAIN files
        /\ now - files[StepName'].ctime > CACHE_EXPIRY_MINUTES
        /\ lastStep'.api # "good")
          => /\ DATASETS[idx].key \notin DOMAIN results'
             /\ results' = results
             /\ files' = files]_vars

\* the first dataset's entry is two minutes old, the API raised: the dataset
\* is not in results and the entry is still the one written at 0
C28_Witness ==
    /\ use_cache
    /\ lastStep.i = 1
    /\ lastStep.entry = "expired"
    /\ lastStep.api = "raise"
    /\ DATASETS[1].key \notin DOMAIN results
    /\ CacheName(1, metric) \in DOMAIN files
    /\ files[CacheName(1, metric)] = SavedFile(OldFrame(DATASETS[1], metric), DATASETS[1].key, 0)
    /\ now = 2

\* the time the save that wrote a cache file put into its fetch_timestamp column
SavedAt(fs, fn) == ParseTs(EntryFrame(fs, fn).rows[1].fetch_timestamp.v)

\* C29: a pass that serves a dataset from the cache leaves the dataset's file
\* as it was, content and ctime, and serves it no later than the expiry after
\* the time of the save that wrote the file.
C29_HitLeavesCacheUnchanged ==
    [][call'.n = call.n + 1 =>
         \A i \in DatasetIdx :
            (/\ DATASETS[i].key \in DOMAIN call'.results
             /\ FromCache(call'.results[DATASETS[i].key]))
              => /\ CacheName(i, s_POWER) \in DOMAIN files
                 /\ files'[CacheName(i, s_POWER)] = files[CacheName(i, s_POWER)]
                 /\ now <= SavedAt(files, CacheName(i, s_POWER)) + CACHE_EXPIRY_MINUTES]_vars

\* the entry saved at 0 was served by two passes; the third pass, at minute 2,
\* found it expired and the API down: nothing is served, the entry is unchanged
C29_Witness ==
    /\ call.op = "passes"
    /\ call.n = 3
    /\ call.hits = 2
    /\ now = 2
    /\ call.results = EmptyDict
    /\ CacheName(1, s_POWER) \in DOMAIN files
    /\ SavedAt(files, CacheName(1, s_POWER)) = 0

\* the table a load returns from the file a run wrote in full at time t
CompleteTable(p, t) ==
    EntryFrame([f \in {RaceFile} |-> [content |-> FromRaw(RaceLines(p, t)), ctime |-> t]],
               RaceFile)

\* C27: with two runs on one directory, every load has returned nothing or the
\* complete table one run saved, and once both runs have finished the entry is
\* the complete table one of them saved.
C27_RaceIsBenign ==
    call.op = "race" =>
        /\ \A p \in Runs :
            IsSome(call.loaded[p]) =>
                \E q \in Runs, t \in 0..MaxTime : call.loaded[p].df = CompleteTable(q, t)
        /\ (\A p \in Runs : call.pc[p] = "done") =>
                \E q \in Runs, t \in 0..MaxTime :
                    EntryFrame(files, RaceFile) = CompleteTable(q, t)

\* calculate_basic_stats has returned
StatsReturned == call.op = "utils" /\ call.fn = "calculate_basic_stats"

\* the table given has rows and a value column
Summarizable(df) ==
    /\ ~IsNone(df)
    /\ df.df.rows # <<>>
    /\ "value" \in Range(df.df.cols)

\* the values present in the value column, in tenths, and their squares
PresentTenths(df) ==
    LET cells == SelectSeq(Column(df.df, "value"), IsPresent)
    IN  [i \in 1..Len(cells) |-> cells[i].v]

Squares(q) == [i \in 1..Len(q) |-> q[i] * q[i]]

\* C21: calculate_basic_stats returns the error marker, and raises nothing, for
\* an absent table, a table of zero rows and a table without the value column;
\* for every other table count is the number of rows and min, max and mean are
\* the least, the greatest and the average of the values the column holds.
C21_ErrorMarkerOrStats ==
    StatsReturned =>
        IF ~Summarizable(call.df) THEN call.ret = [error |-> "Invalid data"]
        ELSE LET v == PresentTenths(call.df)
             IN  /\ call.ret.count = Len(call.df.df.rows)
                 /\ IF v = <<>>
                    THEN /\ call.ret.min = NaN
                         /\ call.ret.max = NaN
                         /\ call.ret.mean = NaN
                    ELSE /\ \E i \in 1..Len(v) :
                              /\ call.ret.min = Frac(v[i], 10)
                              /\ \A j \in 1..Len(v) : v[i] <= v[j]
                         /\ \E i \in 1..Len(v) :
                              /\ call.ret.max = Frac(v[i], 10)
                              /\ \A j \in 1..Len(v) : v[i] >= v[j]
                         /\ call.ret.mean.p * 10 * Len(v) = call.ret.mean.q * SumSeq(v)

\* the statistics of a table of three rows, one of them without a value
C21_Witness ==
    /\ StatsReturned
    /\ Summarizable(call.df)
    /\ Column(call.df.df, "value") = <<Num(10), NaN, Num(-10)>>
    /\ call.ret.count = 3
    /\ call.ret.min = Frac(-1, 1)
    /\ call.ret.max = Frac(1, 1)
    /\ call.ret.mean = Frac(0, 1)

\* the square of a standard deviation
Squared(s) == IF s.t = "root" THEN s.of ELSE FracMul(s, s)

\* C22: for every table of two or more rows std is a number whose square is the
\* sum of the squared deviations from the mean divided by count - 1; for a table
\* of one row it is 0.0; the values 1, 2, 3, 4 give count 4, min 1, max 4,
\* mean 2.5 and variance 5/3.
C22_SampleStd ==
    (StatsReturned /\ Summarizable(call.df)) =>
        LET v == PresentTenths(call.df)
            n == Len(call.df.df.rows)
        IN  /\ n = 1 => call.ret.std = Frac(0, 1)
            /\ n >= 2 =>
                /\ IsPresent(call.ret.std)
                /\ Squared(call.ret.std) =
                       Frac(Len(v) * SumSeq(Squares(v)) - SumSeq(v) * SumSeq(v),
                            100 * Len(v) * (n - 1))
            /\ v = <<10, 20, 30, 40>> =>
                /\ call.ret.count = 4
                /\ call.ret.min = Frac(1, 1)
                /\ call.ret.max = Frac(4, 1)
                /\ call.ret.mean = Frac(5, 2)
                /\ Squared(call.ret.std) = Frac(5, 3)

\* the value column of the table given, as cells
ValueCells == Column(call.df.df, "value")

\* no value of the table given is missing
AllPresent == \A i \in 1..Len(ValueCells) : IsPresent(ValueCells[i])

\* the sum of the values from row a to row b, in tenths
TenthsBetween(a, b) == SumSeq([i \in 1..(b - a + 1) |-> ValueCells[a + i - 1].v])

\* C23: for every sequence of two or more values, trend_direction is
\* 'increasing' exactly when the mean of the values after the first floor(n/2)
\* is strictly greater than the mean of the first floor(n/2), and 'decreasing'
\* otherwise, as for a constant series; 1, 1, 1, 5, 5, 5 gives 'increasing'.
C23_TrendDirection ==
    (/\ call.op = "utils"
     /\ call.fn = "analyze_trend_direction"
     /\ Len(ValueCells) >= 2
     /\ AllPresent) =>
        LET n == Len(ValueCells)
            h == n \div 2
        IN  /\ call.ret = IF TenthsBetween(h + 1, n) * h > TenthsBetween(1, h) * (n - h)
                          THEN "increasing" ELSE "decreasing"
            /\ (\A i \in 1..n : ValueCells[i] = ValueCells[1]) => call.ret = "decreasing"
            /\ ValueCells = <<Num(10), Num(10), Num(10), Num(50), Num(50), Num(50)>>
                   => call.ret = "increasing"

\* analyze_dataset_trends has returned or raised
TrendsReturned == call.op = "utils" /\ call.fn = "analyze_dataset_trends"

\* C24: for every table of fewer than two rows analyze_dataset_trends returns
\* the summary with trend_direction 'insufficient_data', peak_month 1,
\* low_month 1 and volatility 0.0.
C24_FewRowsGiveDefaults ==
    (TrendsReturned /\ ~IsNone(call.df) /\ Len(call.df.df.rows) < 2) =>
        call.ret = [trend_direction |-> "insufficient_data", peak_month |-> 1,
                    low_month |-> 1, volatility |-> FloatZero]

\* the rows of month m that hold a value
Bucket(m) ==
    {i \in 1..Len(call.df.df.rows) :
        MonthOfRow(call.df.df.rows[i]) = m /\ IsPresent(ValueCells[i])}

\* the months of the rows of the table
MonthsMet == {MonthOfRow(call.df.df.rows[i]) : i \in 1..Len(call.df.df.rows)}

\* the sum of the values of a bucket, in tenths
BucketSum(m) ==
    SumSeq([i \in 1..Len(ValueCells) |-> IF i \in Bucket(m) THEN ValueCells[i].v ELSE 0])

\* the average of bucket a is at least the average of bucket b
AvgAtLeast(a, b) ==
    BucketSum(a) * Cardinality(Bucket(b)) >= BucketSum(b) * Cardinality(Bucket(a))

\* C25: for every table with rows, a value column and a timestamp column, the
\* summary names as peak_month (low_month) a month of the year whose average
\* value, over the rows of that month of every year, is the greatest (least) of
\* the months met; without a timestamp column both are 1.
C25_PeakAndLowMonth ==
    (TrendsReturned /\ Summarizable(call.df)) =>
        /\ "peak_month" \in DOMAIN call.ret
        /\ "low_month" \in DOMAIN call.ret
        /\ IF "timestamp" \notin Range(call.df.df.cols)
           THEN call.ret.peak_month = 1 /\ call.ret.low_month = 1
           ELSE /\ call.ret.peak_month \in MonthsMet
                /\ call.ret.low_month \in MonthsMet
                /\ \A m \in MonthsMet :
                     /\ AvgAtLeast(call.ret.peak_month, m)
                     /\ AvgAtLeast(m, call.ret.low_month)

\* C26, the part that fixes the value exactly: volatility is 0.0 for fewer than
\* two values, for values whose mean is 0 and for every constant sequence, and
\* it is never negative.
C26_Volatility ==
    (/\ call.op = "utils"
     /\ call.fn = "calculate_volatility"
     /\ AllPresent) =>
        /\ call.ret.t = "float"
        /\ call.ret.s = 1
        /\ Len(ValueCells) < 2 => call.ret = FloatZero
        /\ TenthsBetween(1, Len(ValueCells)) = 0 => call.ret = FloatZero
        /\ (\A i \in 1..Len(ValueCells) : ValueCells[i] = ValueCells[1])
               => call.ret = FloatZero

====
